---------------------------- MODULE Spec2Model ----------------------------
(***************************************************************************)
(* Architecture analyzer of aides-simplifiees-mcp                          *)
(* (src/src/tools/domainTermLinter.ts, lines 134-656): coupling,           *)
(* duplication, complexity, circular dependencies and the health score.    *)
(*                                                                         *)
(* Strings are sequences of one-character strings, so that includes,       *)
(* startsWith, replace, split, sort and charCodeAt are computed and not    *)
(* assumed.                                                                *)
(***************************************************************************)
EXTENDS Integers, Sequences, FiniteSets, TLC

VARIABLES
    pc,          \* position of the caller: which operation has been applied
    components,  \* the catalog handed to the analyzer (T_ComponentInfo[])
    cycles,      \* result of detectCircularDependencies (T_CircularDependency[])
    metrics,     \* the four engine results handed to calculateHealthScore
    record,      \* the T_ArchitectureAnalysis returned by analyzeArchitecture
    fs,          \* the files under repoPath: path -> readable?, content
    fileCache,   \* the module-level Map fileCache: path -> entry?, content
    astCache,    \* the module-level Map astCache: path -> tree (NoAst: none)
    run,         \* the locals of the invocation in flight
    hist,        \* what has happened so far, for stating the properties
    now          \* the clock that formatTimestamp reads

pipelineVars == <<fs, fileCache, astCache, run, hist, now>>

vars == <<pc, components, cycles, metrics, record, pipelineVars>>

NoMetrics ==
    [coupling |-> <<>>, duplication |-> <<>>, complexity |-> <<>>,
     circularDependencies |-> <<>>]

NoRecord == [returned |-> FALSE]

\* The value of the pipeline variables in the specifications of one engine,
\* which read no file.
NoPipeline ==
    /\ fs = <<>> /\ fileCache = <<>> /\ astCache = <<>>
    /\ run = <<>> /\ hist = <<>> /\ now = 0

-----------------------------------------------------------------------------
(* Bounds of the model                                                     *)

MaxComponents == 4
MaxDeps == 2
MaxRing == 5
MaxHigh == 2            \* high-coupling entries of an engine result
MaxDuplications == 3
MaxVeryComplex == 2
MaxComplex == 2
MaxCircular == 11
MaxHarmless == 1        \* moderate/good coupling, moderate/simple functions

-----------------------------------------------------------------------------
(* Strings                                                                 *)

\* String.prototype.charCodeAt for the characters the model uses.
charCodeAt(c) ==
    CASE c = "\n" -> 10
      [] c = "(" -> 40
      [] c = "." -> 46
      [] c = "/" -> 47
      [] c = "=" -> 61
      [] c = ">" -> 62
      [] c = "a" -> 97
      [] c = "b" -> 98
      [] c = "c" -> 99
      [] c = "d" -> 100
      [] c = "e" -> 101
      [] c = "s" -> 115
      [] c = "t" -> 116
      [] c = "x" -> 120
      [] c = "z" -> 122

\* a < b in the order Array.prototype.sort uses without a comparator:
\* code unit by code unit, a proper prefix first.
RECURSIVE StrLess(_, _)
StrLess(a, b) ==
    IF b = <<>> THEN FALSE
    ELSE IF a = <<>> THEN TRUE
    ELSE IF charCodeAt(Head(a)) # charCodeAt(Head(b))
         THEN charCodeAt(Head(a)) < charCodeAt(Head(b))
    ELSE StrLess(Tail(a), Tail(b))

\* String.prototype.startsWith
startsWith(s, t) == Len(t) <= Len(s) /\ SubSeq(s, 1, Len(t)) = t

\* String.prototype.includes
includes(s, t) ==
    \E i \in 1..(Len(s) - Len(t) + 1) : SubSeq(s, i, i + Len(t) - 1) = t

\* dep.replace(/^\.\.?\//, ""): drops one leading "./" or "../".
stripRelative(dep) ==
    IF startsWith(dep, <<".", "/">>) THEN SubSeq(dep, 3, Len(dep))
    ELSE IF startsWith(dep, <<".", ".", "/">>) THEN SubSeq(dep, 4, Len(dep))
    ELSE dep

\* Insert x into the sorted sequence s.
RECURSIVE SortedInsert(_, _)
SortedInsert(x, s) ==
    IF s = <<>> THEN <<x>>
    ELSE IF StrLess(x, Head(s)) THEN <<x>> \o s
    ELSE <<Head(s)>> \o SortedInsert(x, Tail(s))

\* Array.prototype.sort() of an array of strings (default comparator).
RECURSIVE sort(_)
sort(s) == IF s = <<>> THEN <<>> ELSE SortedInsert(Head(s), sort(Tail(s)))

\* Array.prototype.indexOf, 1-based; 0 when absent.
RECURSIVE indexOfFrom(_, _, _)
indexOfFrom(s, x, i) ==
    IF i > Len(s) THEN 0
    ELSE IF s[i] = x THEN i
    ELSE indexOfFrom(s, x, i + 1)

indexOf(s, x) == indexOfFrom(s, x, 1)

Range(s) == {s[i] : i \in 1..Len(s)}

\* String.prototype.split("\n"): the fields between the separators; the
\* empty string splits into one empty field.  (The test on next only makes
\* each step computed before the next one.)
RECURSIVE splitFrom(_, _, _)
splitFrom(s, i, cur) ==
    IF i > Len(s) THEN <<cur>>
    ELSE IF s[i] = "\n" THEN <<cur>> \o splitFrom(s, i + 1, <<>>)
    ELSE LET next == Append(cur, s[i])
         IN  IF Len(next) > 0 THEN splitFrom(s, i + 1, next) ELSE <<next>>

splitLines(s) == splitFrom(s, 1, <<>>)

\* Array.prototype.join("\n")
RECURSIVE joinLines(_)
joinLines(ls) ==
    IF ls = <<>> THEN <<>>
    ELSE IF Len(ls) = 1 THEN ls[1]
    ELSE ls[1] \o <<"\n">> \o joinLines(Tail(ls))

\* Array.prototype.slice(0, n)
sliceTo(s, n) == SubSeq(s, 1, IF n < Len(s) THEN n ELSE Len(s))

-----------------------------------------------------------------------------
(* Numbers                                                                 *)

Min(a, b) == IF a < b THEN a ELSE b
Max(a, b) == IF a > b THEN a ELSE b

RECURSIVE Gcd(_, _)
Gcd(a, b) == IF b = 0 THEN a ELSE Gcd(b, a % b)

\* The quotient n/d of two non-negative integers (d > 0) as the fraction in
\* lowest terms: two quotients are the same number exactly when the
\* fractions are equal.
Ratio(n, d) == LET g == Gcd(n, d) IN [num |-> n \div g, den |-> d \div g]

\* r > n/d and r >= n/d for a fraction r.
RatioGt(r, n, d) == r.num * d > n * r.den
RatioGe(r, n, d) == r.num * d >= n * r.den

\* A 32-bit integer as its two 16-bit halves (hi, lo): the bit pattern of
\* the int32 value hi*65536 + lo, hi read as signed when the value is.
Half == 65536

\* (hash << 5) on the bit pattern.
shl5(h) ==
    LET lo == h.lo * 32
    IN  [hi |-> (h.hi * 32 + (lo \div Half)) % Half, lo |-> lo % Half]

\* a - b on the bit patterns, modulo 2^32.
sub32(a, b) ==
    LET lo == a.lo - b.lo
        borrow == IF lo < 0 THEN 1 ELSE 0
    IN  [hi |-> (a.hi - b.hi - borrow + 2 * Half) % Half, lo |-> (lo + Half) % Half]

\* a + c on the bit pattern for a small non-negative c, modulo 2^32.
add32(a, c) ==
    LET lo == a.lo + c
    IN  [hi |-> (a.hi + (lo \div Half)) % Half, lo |-> lo % Half]

\* The signed upper half of an int32 bit pattern.
signedHi(h) == IF h.hi >= Half \div 2 THEN h.hi - Half ELSE h.hi

\* Math.abs(a - b) > bound for two int32 values (bound < 2 * 65536): the
\* difference is computed exactly, as in double arithmetic.
absDiffExceeds(a, b, bound) ==
    LET dh == signedHi(a) - signedHi(b)
        d == dh * Half + (a.lo - b.lo)
    IN  IF dh >= 3 \/ dh <= -3 THEN TRUE
        ELSE (IF d < 0 THEN -d ELSE d) > bound

-----------------------------------------------------------------------------
(* similarity (utils)                                                      *)

\* The inner loop of levenshtein for row i >= 1: costs is the single row,
\* costs[j + 1] holding the source's costs[j]. (The guards on newValue and
\* on the row only make TLC compute each step before the next one.)
RECURSIVE levInner(_, _, _, _, _, _)
levInner(s1, s2, i, j, costs, lastValue) ==
    IF j > Len(s2) THEN [costs EXCEPT ![Len(s2) + 1] = lastValue]
    ELSE LET newValue ==
                IF s1[i] # s2[j]
                THEN Min(Min(costs[j], lastValue), costs[j + 1]) + 1
                ELSE costs[j]
             written == [costs EXCEPT ![j] = lastValue]
         IN  IF newValue >= 0 /\ written[j] = lastValue
             THEN levInner(s1, s2, i, j + 1, written, newValue)
             ELSE written

RECURSIVE levOuter(_, _, _, _)
levOuter(s1, s2, i, costs) ==
    IF i > Len(s1) THEN costs[Len(s2) + 1]
    ELSE LET row == levInner(s1, s2, i, 1, costs, i)
         IN  IF Len(row) = Len(s2) + 1 THEN levOuter(s1, s2, i + 1, row)
             ELSE -1

\* The distance computed from a row 0 of zeros (the slip C16 is checked
\* against).
levenshteinFromZeroRow(s1, s2) ==
    levOuter(s1, s2, 1, [j \in 1..(Len(s2) + 1) |-> 0])

\* levenshtein(s1, s2): row 0 is costs[j] = j.
levenshtein(s1, s2) == levOuter(s1, s2, 1, [j \in 1..(Len(s2) + 1) |-> j - 1])

\* The similarity that takes its first argument for the longer string (the
\* slip C17 is checked against).
similarityOfFirst(s1, s2) ==
    IF Len(s1) = 0 THEN Ratio(1, 1)
    ELSE Ratio(Max(Len(s1) - levenshtein(s1, s2), 0), Len(s1))

\* similarity(s1, s2) = (longer.length - editDistance) / longer.length
similarity(s1, s2) ==
    LET longer == IF Len(s1) > Len(s2) THEN s1 ELSE s2
        shorter == IF Len(s1) > Len(s2) THEN s2 ELSE s1
    IN  IF Len(longer) = 0 THEN Ratio(1, 1)
        ELSE Ratio(Len(longer) - levenshtein(longer, shorter), Len(longer))

-----------------------------------------------------------------------------
(* Coupling analyzer                                                       *)

\* array.filter(pred).length for a predicate given as the set of indices
\* it holds of.
countOf(S) == Cardinality(S)

\* NaN as a quotient, the result of 0 / 0.
NaN == [num |-> 0, den |-> 0]

\* The quotient without the test on total (the slip C19 is checked
\* against).
instabilityUnguarded(afferentCoupling, efferentCoupling) ==
    IF afferentCoupling + efferentCoupling = 0 THEN NaN
    ELSE Ratio(efferentCoupling, afferentCoupling + efferentCoupling)

\* total > 0 ? efferentCoupling / total : 0
instabilityOf(afferentCoupling, efferentCoupling) ==
    IF afferentCoupling + efferentCoupling > 0
    THEN Ratio(efferentCoupling, afferentCoupling + efferentCoupling)
    ELSE Ratio(0, 1)

\* The score from the instability alone (the slip C20 is checked against).
couplingScoreByInstability(instability, efferentCoupling) ==
    IF RatioGt(instability, 7, 10) THEN "high"
    ELSE IF RatioGt(instability, 5, 10) THEN "moderate"
    ELSE "good"

\* The score of a component.
couplingScore(instability, efferentCoupling) ==
    IF RatioGt(instability, 7, 10) \/ efferentCoupling > 10 THEN "high"
    ELSE IF RatioGt(instability, 5, 10) \/ efferentCoupling > 5 THEN "moderate"
    ELSE "good"

couplingOf(comps, component) ==
    LET afferentCoupling ==
            countOf({i \in 1..Len(comps) :
                \E k \in 1..Len(comps[i].dependencies) :
                    includes(comps[i].dependencies[k], component.name)})
        efferentCoupling ==
            countOf({k \in 1..Len(component.dependencies) :
                startsWith(component.dependencies[k], <<".">>)})
        instability == instabilityOf(afferentCoupling, efferentCoupling)
    IN  [component |-> component.path,
         afferentCoupling |-> afferentCoupling,
         efferentCoupling |-> efferentCoupling,
         instability |-> instability,
         score |-> couplingScore(instability, efferentCoupling)]

calculateCoupling(comps) == [i \in 1..Len(comps) |-> couplingOf(comps, comps[i])]

-----------------------------------------------------------------------------
(* Duplication detector                                                    *)

minLines == 10
maxComparisons == 100000
maxHashDistance == 100000

\* hashCode(str): hash = ((hash << 5) - hash) + char, cut to 32 bits.
\* (The test on next only makes each step computed before the next one.)
RECURSIVE hashFrom(_, _, _)
hashFrom(str, i, hash) ==
    IF i > Len(str) THEN hash
    ELSE LET next == add32(sub32(shl5(hash), hash), charCodeAt(str[i]))
         IN  IF next.lo >= 0 THEN hashFrom(str, i + 1, next) ELSE next

hashCode(str) == hashFrom(str, 1, [hi |-> 0, lo |-> 0])

\* The filter without its test on the path (the slip C15 is checked
\* against).
isCandidateWhateverPath(c) == c.linesOfCode >= minLines

\* The filter on the catalog: large enough and not a test file.
isCandidate(c) ==
    /\ c.linesOfCode >= minLines
    /\ ~includes(c.path, <<".", "t", "e", "s", "t", ".">>)
    /\ ~includes(c.path, <<".", "s", "p", "e", "c", ".">>)

\* components.filter(...)
filterCandidates(comps) == SelectSeq(comps, isCandidate)

\* One element of componentContents.
contentEntry(c, content) ==
    [component |-> c, content |-> content, lines |-> splitLines(content),
     hash |-> hashCode(content)]

\* The fixed suggestion of an instance (its last letter is an e with an
\* acute accent in the source).
duplicationSuggestion ==
    "Envisager d'extraire le code commun dans un composant ou utilitaire partage"

\* The body of the pair loop after the comparison counter: the instances
\* with the pair's instance appended when it passes the three filters and
\* the similarity threshold.
comparePair(ea, eb, instances) ==
    IF Len(ea.lines) < minLines \/ Len(eb.lines) < minLines THEN instances
    ELSE IF 2 * Min(Len(ea.lines), Len(eb.lines)) < Max(Len(ea.lines), Len(eb.lines))
    THEN instances
    ELSE IF absDiffExceeds(ea.hash, eb.hash, maxHashDistance) THEN instances
    ELSE LET sim == similarity(ea.content, eb.content)
         IN  IF RatioGe(sim, 85, 100)
             THEN Append(instances,
                    [files |-> <<ea.component.path, eb.component.path>>,
                     lines |-> Min(Len(ea.lines), Len(eb.lines)),
                     similarity |-> sim,
                     snippet |-> joinLines(sliceTo(ea.lines, 5))
                                    \o <<"\n", ".", ".", ".">>,
                     suggestion |-> duplicationSuggestion])
             ELSE instances

\* The budget of the optimisation notes, 2000 comparisons (the slip C26 is
\* checked against).
budgetSpentAtNotedLimit(comparisons) == comparisons >= 2000

\* The test on the counter that never stops the loop (the slip C14 is
\* checked against).
budgetNeverSpent(comparisons) == FALSE

\* comparisons >= maxComparisons, tested right after the counter has been
\* incremented for the pair.
budgetSpent(comparisons) == comparisons >= maxComparisons

\* The loop variables after the pair (i, j) of n: the next pair, or i
\* beyond the last index when there is none.
nextPair(i, j, n) ==
    IF j < n THEN [i |-> i, j |-> j + 1]
    ELSE IF i + 2 <= n THEN [i |-> i + 1, j |-> i + 2]
    ELSE [i |-> n + 1, j |-> n + 2]

\* The locals of the loop before its first turn.
loopStart ==
    [i |-> 1, j |-> 2, comparisons |-> 0, instances |-> <<>>,
     stoppedEarly |-> FALSE]

\* One turn of the inner loop, for the pair (st.i, st.j): the counter, the
\* test of the budget (which returns), and the body.  Nothing happens once
\* the loops have ended or the function has returned.
pairTurn(cc, st) ==
    IF st.stoppedEarly \/ st.j > Len(cc) THEN st
    ELSE IF budgetSpent(st.comparisons + 1)
    THEN [st EXCEPT !.comparisons = @ + 1, !.stoppedEarly = TRUE]
    ELSE LET next == nextPair(st.i, st.j, Len(cc))
         IN  [st EXCEPT !.comparisons = @ + 1,
                        !.instances = comparePair(cc[st.i], cc[st.j], @),
                        !.i = next.i, !.j = next.j]

\* The next count turns of the loop, the first half of them and then the
\* rest.  (The test on the counter only makes the first half computed
\* before the rest.)
RECURSIVE pairTurns(_, _, _)
pairTurns(cc, st, count) ==
    IF count = 0 THEN st
    ELSE IF count = 1 THEN pairTurn(cc, st)
    ELSE LET half == pairTurns(cc, st, count \div 2)
         IN  IF half.comparisons >= 0
             THEN pairTurns(cc, half, count - (count \div 2))
             ELSE half

\* The two nested loops over componentContents, which make at most one
\* turn for each of the n(n - 1)/2 pairs: the locals when the function
\* returns.
pairLoop(cc) ==
    pairTurns(cc, loopStart, (Len(cc) * (Len(cc) - 1)) \div 2)

\* componentContents: contents[k] is the content getCachedFileContent
\* returned for the k-th candidate.
componentContents(candidates, contents) ==
    [k \in 1..Len(candidates) |-> contentEntry(candidates[k], contents[k])]

\* detectDuplication once every content has been obtained.
compareContents(candidates, contents) ==
    pairLoop(componentContents(candidates, contents)).instances

-----------------------------------------------------------------------------
(* Complexity analyzer: the counting rules                                 *)

\* \w of a regular expression.
WordChars ==
    {"a", "b", "c", "d", "e", "f", "g", "h", "i", "j", "k", "l", "m", "n",
     "o", "p", "q", "r", "s", "t", "u", "v", "w", "x", "y", "z", "_",
     "0", "1", "2", "3", "4", "5", "6", "7", "8", "9"}

\* \s of a regular expression, for the characters the model uses.
SpaceChars == {" ", "\n", "\t"}

\* \b at the gap before position i (1-based) of code.
wordBoundary(code, i) ==
    LET before == i > 1 /\ code[i - 1] \in WordChars
        after == i <= Len(code) /\ code[i] \in WordChars
    IN  before # after

\* Length of the match of the literal lit at position i, 0 if none.
matchLiteral(code, i, lit) ==
    IF i + Len(lit) - 1 <= Len(code) /\ SubSeq(code, i, i + Len(lit) - 1) = lit
    THEN Len(lit) ELSE 0

\* Length of the match of \blit\b at position i, 0 if none.
matchWord(code, i, lit) ==
    IF matchLiteral(code, i, lit) > 0 /\ wordBoundary(code, i)
          /\ wordBoundary(code, i + Len(lit))
    THEN Len(lit) ELSE 0

\* The end of the run of \s characters that starts at position i.
RECURSIVE skipSpaces(_, _)
skipSpaces(code, i) ==
    IF i <= Len(code) /\ code[i] \in SpaceChars THEN skipSpaces(code, i + 1)
    ELSE i

\* Length of the match of \belse\s+if\b at position i, 0 if none.
matchElseIf(code, i) ==
    LET e == <<"e", "l", "s", "e">>
        k == skipSpaces(code, i + 4)
    IN  IF matchLiteral(code, i, e) > 0 /\ wordBoundary(code, i) /\ k > i + 4
              /\ matchLiteral(code, k, <<"i", "f">>) > 0
              /\ wordBoundary(code, k + 2)
        THEN k + 2 - i ELSE 0

\* The patterns of calculateCyclomaticComplexity, in the order of the source.
CyclomaticPatterns ==
    <<"if", "else-if", "for", "while", "case", "catch", "&&", "||", "?">>

keywordOf(pattern) ==
    CASE pattern = "if" -> <<"i", "f">>
      [] pattern = "for" -> <<"f", "o", "r">>
      [] pattern = "while" -> <<"w", "h", "i", "l", "e">>
      [] pattern = "case" -> <<"c", "a", "s", "e">>
      [] pattern = "catch" -> <<"c", "a", "t", "c", "h">>
      [] pattern = "switch" -> <<"s", "w", "i", "t", "c", "h">>
      [] pattern = "&&" -> <<"&", "&">>
      [] pattern = "||" -> <<"|", "|">>
      [] pattern = "?" -> <<"?">>

\* Length of the match of one pattern at position i, 0 if none.
matchAt(code, i, pattern) ==
    IF pattern = "else-if" THEN matchElseIf(code, i)
    ELSE IF pattern \in {"&&", "||", "?"} THEN matchLiteral(code, i, keywordOf(pattern))
    ELSE matchWord(code, i, keywordOf(pattern))

\* (code.match(/pattern/g) || []).length: the matches are taken from left
\* to right and do not overlap.
RECURSIVE countMatches(_, _, _)
countMatches(code, i, pattern) ==
    IF i > Len(code) THEN 0
    ELSE LET m == matchAt(code, i, pattern)
         IN  IF m > 0 THEN 1 + countMatches(code, i + m, pattern)
             ELSE countMatches(code, i + 1, pattern)

RECURSIVE sumPatterns(_, _)
sumPatterns(code, k) ==
    IF k > Len(CyclomaticPatterns) THEN 0
    ELSE countMatches(code, 1, CyclomaticPatterns[k]) + sumPatterns(code, k + 1)

\* The count that starts from 0 (the slip C24 is checked against).
calculateCyclomaticComplexityFromZero(code) == sumPatterns(code, 1)

calculateCyclomaticComplexity(code) == 1 + sumPatterns(code, 1)

\* /\b(if|for|while|switch|catch)\b/.test(line)
hasControlKeyword(line) ==
    \E i \in 1..Len(line) :
        \E kw \in {"if", "for", "while", "switch", "catch"} :
            matchWord(line, i, keywordOf(kw)) > 0

\* (line.match(/(\&\&|\|\|)/g) || []).length
RECURSIVE countLogicalOps(_, _)
countLogicalOps(line, i) ==
    IF i > Len(line) THEN 0
    ELSE IF matchLiteral(line, i, <<"&", "&">>) > 0
              \/ matchLiteral(line, i, <<"|", "|">>) > 0
    THEN 1 + countLogicalOps(line, i + 2)
    ELSE countLogicalOps(line, i + 1)

\* The loop of calculateCognitiveComplexity over the lines, from line k on.
RECURSIVE cognitiveFrom(_, _, _, _)
cognitiveFrom(lines, k, complexity, nestingLevel) ==
    IF k > Len(lines) THEN complexity
    ELSE LET line == lines[k]
             opened == IF includes(line, <<"{">>) THEN nestingLevel + 1
                       ELSE nestingLevel
             level == IF includes(line, <<"}">>) THEN Max(0, opened - 1)
                      ELSE opened
             control == IF hasControlKeyword(line) THEN 1 + level ELSE 0
         IN  cognitiveFrom(lines, k + 1,
                 complexity + control + countLogicalOps(line, 1), level)

calculateCognitiveComplexity(code) == cognitiveFrom(splitLines(code), 1, 0, 0)

complexityScore(cyclomatic, cognitive) ==
    IF cyclomatic > 20 \/ cognitive > 15 THEN "very-complex"
    ELSE IF cyclomatic > 10 \/ cognitive > 7 THEN "complex"
    ELSE IF cyclomatic > 5 \/ cognitive > 3 THEN "moderate"
    ELSE "simple"

-----------------------------------------------------------------------------
(* Complexity analyzer: the syntax tree and the walk over it               *)

\* The values a property of a tree object holds.  Primitive properties other
\* than the numbers of a range are not objects and the walk skips them, so
\* the model leaves them out of props.
ObjVal(r) == [kind |-> "object", ref |-> r, n |-> 0, elems |-> <<>>]
NumVal(k) == [kind |-> "number", ref |-> 0, n |-> k, elems |-> <<>>]
ArrVal(es) == [kind |-> "array", ref |-> 0, n |-> 0, elems |-> es]
Undefined == [kind |-> "undefined", ref |-> 0, n |-> 0, elems |-> <<>>]

Prop(key, val) == [key |-> key, val |-> val]

\* One tree node with the range and loc that the options range: true and
\* loc: true add; i is its own reference, total the number of nodes.
AstNode(i, total, type, name, children, from, to) ==
    [type |-> type, name |-> name,
     props |-> children \o
               <<Prop("range", ArrVal(<<NumVal(from), NumVal(to)>>)),
                 Prop("loc", ObjVal(total + i))>>]

\* The loc object of node i and its two position objects.
LocObject(i, total) ==
    [type |-> "", name |-> "",
     props |-> <<Prop("start", ObjVal(2 * total + i)),
                 Prop("end", ObjVal(3 * total + i))>>]

Position == [type |-> "", name |-> "", props |-> <<>>]

\* The heap of a tree: its nodes, then a loc per node, then the positions.
AstHeap(nodes) ==
    LET total == Len(nodes)
    IN  nodes \o [i \in 1..total |-> LocObject(i, total)]
              \o [i \in 1..(2 * total) |-> Position]

NoAst == <<>>

IdentChars == WordChars \ {"0", "1", "2", "3", "4", "5", "6", "7", "8", "9"}

RECURSIVE leadingNewlines(_, _)
leadingNewlines(content, i) ==
    IF i <= Len(content) /\ content[i] = "\n" THEN leadingNewlines(content, i + 1)
    ELSE i - 1

\* parse(content, {loc, range, jsx}) for the programs the model feeds it:
\* blank lines, then either an arrow function x=>y or a lone identifier.
\* Anything else is a syntax error, which parse throws.
parse(content) ==
    LET lead == leadingNewlines(content, 1)
        rest == SubSeq(content, lead + 1, Len(content))
        last == Len(content)
    IN  IF Len(rest) = 4 /\ rest[1] \in IdentChars /\ rest[2] = "="
              /\ rest[3] = ">" /\ rest[4] \in IdentChars
        THEN [thrown |-> FALSE,
              ast |-> AstHeap(<<
                  AstNode(1, 5, "Program", "",
                      <<Prop("body", ArrVal(<<ObjVal(2)>>))>>, lead, last),
                  AstNode(2, 5, "ExpressionStatement", "",
                      <<Prop("expression", ObjVal(3))>>, lead, last),
                  AstNode(3, 5, "ArrowFunctionExpression", "",
                      <<Prop("params", ArrVal(<<ObjVal(4)>>)),
                        Prop("body", ObjVal(5))>>, lead, last),
                  AstNode(4, 5, "Identifier", rest[1], <<>>, lead, lead + 1),
                  AstNode(5, 5, "Identifier", rest[4], <<>>, lead + 3, last)>>)]
        ELSE IF Len(rest) = 1 /\ rest[1] \in IdentChars
        THEN [thrown |-> FALSE,
              ast |-> AstHeap(<<
                  AstNode(1, 3, "Program", "",
                      <<Prop("body", ArrVal(<<ObjVal(2)>>))>>, lead, last),
                  AstNode(2, 3, "ExpressionStatement", "",
                      <<Prop("expression", ObjVal(3))>>, lead, last),
                  AstNode(3, 3, "Identifier", rest[1], <<>>, lead, last)>>)]
        ELSE [thrown |-> TRUE, ast |-> NoAst]

\* node[key] in the heap as it is now.
RECURSIVE getPropFrom(_, _, _)
getPropFrom(props, key, k) ==
    IF k > Len(props) THEN Undefined
    ELSE IF props[k].key = key THEN props[k].val
    ELSE getPropFrom(props, key, k + 1)

getProp(heap, ref, key) == getPropFrom(heap[ref].props, key, 1)

\* child.parent = node: a new own property the first time, at the end of the
\* property order, and a plain overwrite after that.
setParent(heap, child, node) ==
    LET props == heap[child].props
        at == {k \in 1..Len(props) : props[k].key = "parent"}
    IN  IF at = {}
        THEN [heap EXCEPT ![child].props = Append(props, Prop("parent", ObjVal(node)))]
        ELSE [heap EXCEPT ![child].props =
                 [k \in 1..Len(props) |->
                     IF k \in at THEN Prop("parent", ObjVal(node)) ELSE props[k]]]

FunctionTypes ==
    {"FunctionDeclaration", "FunctionExpression", "ArrowFunctionExpression"}

\* node.id?.name
idName(heap, ref) ==
    LET id == getProp(heap, ref, "id")
    IN  IF id.kind = "object" THEN heap[id.ref].name ELSE ""

\* The name the walk gives to the function at ref.
functionName(heap, ref) ==
    LET parent == getProp(heap, ref, "parent")
        own == idName(heap, ref)
        name == IF own # "" THEN own
                ELSE IF parent.kind = "object"
                          /\ heap[parent.ref].type = "VariableDeclarator"
                THEN idName(heap, parent.ref)
                ELSE "anonymous"
    IN  IF name # "" THEN name ELSE "anonymous"

\* content.slice(from, to) for 0 <= from, 0 <= to.
slice(content, from, to) == SubSeq(content, from + 1, Min(to, Len(content)))

\* The function entry the walk pushes for the node at ref, if it is one.
visitFunction(st, ref, content) ==
    LET range == getProp(st.heap, ref, "range")
        body == slice(content, range.elems[1].n, range.elems[2].n)
    IN  IF st.heap[ref].type \in FunctionTypes /\ range.kind = "array"
        THEN [st EXCEPT !.functions = Append(@,
                 [name |-> functionName(st.heap, ref), body |-> body,
                  lines |-> Len(splitLines(body))])]
        ELSE st

\* walk(node) of extractFunctions.  st carries the heap, the functions pushed
\* so far and the exception in flight.  The file is an ES module and so
\* strict code: child.parent = node on a non-zero number is a TypeError.
\* The for-in loop runs over the keys the node has when the loop starts,
\* parent among them.
RECURSIVE walk(_, _, _)
RECURSIVE walkKeys(_, _, _, _, _)
RECURSIVE walkElems(_, _, _, _, _)
RECURSIVE walkValue(_, _, _, _)
RECURSIVE walkChild(_, _, _, _)
walk(node, content, st) ==
    IF st.thrown # "none" \/ node.kind # "object" THEN st
    ELSE LET keys == [k \in 1..Len(st.heap[node.ref].props) |->
                         st.heap[node.ref].props[k].key]
         IN  walkKeys(node.ref, keys, 1, content,
                      visitFunction(st, node.ref, content))

\* The body of the for-in loop for the value val of one key of the node.
walkValue(ref, val, content, st) ==
    IF val.kind = "array" THEN walkElems(ref, val.elems, 1, content, st)
    ELSE IF val.kind = "object"
    THEN walk(val, content, [st EXCEPT !.heap = setParent(@, val.ref, ref)])
    ELSE st

\* The body of the forEach callback for one element of an array value.
walkChild(ref, child, content, st) ==
    IF child.kind = "number" /\ child.n # 0
    THEN [st EXCEPT !.thrown = "TypeError"]
    ELSE IF child.kind = "object"
    THEN walk(child, content, [st EXCEPT !.heap = setParent(@, child.ref, ref)])
    ELSE st

walkKeys(ref, keys, k, content, st) ==
    IF st.thrown # "none" \/ k > Len(keys) THEN st
    ELSE walkKeys(ref, keys, k + 1, content,
                  walkValue(ref, getProp(st.heap, ref, keys[k]), content, st))

walkElems(ref, elems, j, content, st) ==
    IF st.thrown # "none" \/ j > Len(elems) THEN st
    ELSE walkElems(ref, elems, j + 1, content,
                   walkChild(ref, elems[j], content, st))

extractFunctions(ast, content) ==
    walk(ObjVal(1), content,
         [heap |-> ast, functions |-> <<>>, thrown |-> "none"])

\* The metric of one extracted function.
metricOf(component, func) ==
    LET cyclomatic == calculateCyclomaticComplexity(func.body)
        cognitive == calculateCognitiveComplexity(func.body)
    IN  [file |-> component.path, function |-> func.name,
         cyclomaticComplexity |-> cyclomatic,
         cognitiveComplexity |-> cognitive,
         linesOfCode |-> func.lines,
         score |-> complexityScore(cyclomatic, cognitive)]

\* analyzeComponentComplexity once the content is in hand: the metrics it
\* returns and the tree it leaves in astCache (NoAst for no entry).  Every
\* exception is caught and leaves the metrics empty.
analyzeComponentComplexity(component, content, cached) ==
    IF content = <<>> THEN [metrics |-> <<>>, ast |-> cached]
    ELSE LET parsed == IF cached # NoAst THEN [thrown |-> FALSE, ast |-> cached]
                       ELSE parse(content)
             walked == extractFunctions(parsed.ast, content)
         IN  IF parsed.thrown THEN [metrics |-> <<>>, ast |-> cached]
             ELSE IF walked.thrown # "none"
             THEN [metrics |-> <<>>, ast |-> walked.heap]
             ELSE [metrics |-> [k \in 1..Len(walked.functions) |->
                                   metricOf(component, walked.functions[k])],
                   ast |-> walked.heap]

-----------------------------------------------------------------------------
(* Cycle detector                                                          *)

\* components.find(c => c.path.includes(stripped)): index of the first
\* catalog entry whose path contains the stripped specifier, 0 if none.
RECURSIVE resolveFrom(_, _, _)
resolveFrom(comps, dep, i) ==
    IF i > Len(comps) THEN 0
    ELSE IF includes(comps[i].path, stripRelative(dep)) THEN i
    ELSE resolveFrom(comps, dep, i + 1)

\* The resolved dependencies of one component, unresolved ones filtered out.
RECURSIVE resolveDeps(_, _)
resolveDeps(comps, deps) ==
    IF deps = <<>> THEN <<>>
    ELSE LET r == resolveFrom(comps, Head(deps), 1)
         IN  (IF r = 0 THEN <<>> ELSE <<comps[r].path>>)
                 \o resolveDeps(comps, Tail(deps))

\* The dependency graph as the list of (path, neighbours) in catalog order;
\* graph.set of a repeated path overwrites, so the last entry of a path wins.
buildDependencyGraph(comps) ==
    [i \in 1..Len(comps) |->
        [node |-> comps[i].path,
         edges |-> resolveDeps(comps, comps[i].dependencies)]]

\* graph.get(node) || []
RECURSIVE graphGetFrom(_, _, _)
graphGetFrom(graph, node, i) ==
    IF i = 0 THEN <<>>
    ELSE IF graph[i].node = node THEN graph[i].edges
    ELSE graphGetFrom(graph, node, i - 1)

graphGet(graph, node) == graphGetFrom(graph, node, Len(graph))

\* cycle.sort().join("->"): sort works in place, so the array that is
\* pushed afterwards is the sorted one; the key is the sorted list itself.
cycleKey(cycle) == sort(cycle)

\* Mutant of severityOf: the closing repeat is not counted.
severityOfOpenCycle(cycle) == IF Len(cycle) - 1 <= 3 THEN "error" ELSE "warning"

\* severity: cycle.length <= 3 ? "error" : "warning"
severityOf(cycle) == IF Len(cycle) <= 3 THEN "error" ELSE "warning"

\* The entry that lists the whole path and not the part of it from the
\* first occurrence of the node (the slip C27 is checked against).
recordCycleWholePath(node, path, found) ==
    LET cycle == path \o <<node>>
        key == cycleKey(cycle)
    IN  IF \E k \in 1..Len(found) : sort(found[k].cycle) = key
        THEN found
        ELSE Append(found, [cycle |-> key, severity |-> severityOf(key)])

\* The branch of findCycles taken when the node is on the current path.
recordCycle(node, path, found) ==
    LET cycleStart == indexOf(path, node)
        cycle == SubSeq(path, cycleStart, Len(path)) \o <<node>>
        key == cycleKey(cycle)
    IN  IF \E k \in 1..Len(found) : sort(found[k].cycle) = key
        THEN found
        ELSE Append(found, [cycle |-> key, severity |-> severityOf(key)])

\* A search that marks nothing as visited (the slip C28 is checked
\* against).
markNothing(visited, node) == visited

\* visited.add(node)
markVisited(visited, node) == visited \cup {node}

\* findCycles(node, visited, path): the state threaded through the search
\* is the visited set of this start and the list of cycles found so far;
\* expanded lists the nodes whose neighbours the search of this start has
\* iterated, in the order in which it did.
RECURSIVE findCycles(_, _, _, _), forNeighbors(_, _, _, _, _)
findCycles(graph, node, path, st) ==
    IF indexOf(path, node) # 0
    THEN [st EXCEPT !.found = recordCycle(node, path, @)]
    ELSE IF node \in st.visited THEN st
    ELSE forNeighbors(graph, graphGet(graph, node), 1, Append(path, node),
                      [st EXCEPT !.visited = markVisited(@, node),
                                 !.expanded = Append(@, node)])

forNeighbors(graph, neighbors, i, path, st) ==
    IF i > Len(neighbors) THEN st
    ELSE forNeighbors(graph, neighbors, i + 1, path,
                      findCycles(graph, neighbors[i], path, st))

\* findCycles(start, new Set(), []) with the cycles found so far.
searchFrom(graph, start, found) ==
    findCycles(graph, start, <<>>,
               [visited |-> {}, found |-> found, expanded |-> <<>>])

\* for (const component of components) findCycles(component.path, new Set(), [])
RECURSIVE fromEveryStart(_, _, _, _)
fromEveryStart(graph, comps, i, found) ==
    IF i > Len(comps) THEN found
    ELSE fromEveryStart(graph, comps, i + 1,
                        searchFrom(graph, comps[i].path, found).found)

detectCircularDependencies(comps) ==
    fromEveryStart(buildDependencyGraph(comps), comps, 1, <<>>)

-----------------------------------------------------------------------------
(* Health scorer                                                           *)

\* array.filter(pred).length for the score label of the entries.
RECURSIVE countScore(_, _)
countScore(list, label) ==
    IF list = <<>> THEN 0
    ELSE (IF Head(list).score = label THEN 1 ELSE 0) + countScore(Tail(list), label)

\* The score that leaves the coupling results out (the slip C21 is checked
\* against).
calculateHealthScoreNoCoupling(m) ==
    Max(0, Min(100,
        100 - Len(m.duplication) * 5
            - countScore(m.complexity, "very-complex") * 4
            - countScore(m.complexity, "complex") * 2
            - Len(m.circularDependencies) * 10))

\* Mutant of calculateHealthScore: the result is not clamped.
calculateHealthScoreUnclamped(m) ==
    100 - countScore(m.coupling, "high") * 3 - Len(m.duplication) * 5
        - countScore(m.complexity, "very-complex") * 4
        - countScore(m.complexity, "complex") * 2
        - Len(m.circularDependencies) * 10

\* Mutant of calculateHealthScore: complex functions cost as much as
\* very complex ones.
calculateHealthScoreFlatComplexity(m) ==
    Max(0, Min(100,
        100 - countScore(m.coupling, "high") * 3 - Len(m.duplication) * 5
            - countScore(m.complexity, "very-complex") * 4
            - countScore(m.complexity, "complex") * 4
            - Len(m.circularDependencies) * 10))

\* calculateHealthScore: the deductions are applied one after the other to
\* the running score, which is clamped at the end.
calculateHealthScore(m) ==
    LET s0 == 100
        highCoupling == countScore(m.coupling, "high")
        s1 == s0 - highCoupling * 3
        s2 == s1 - Len(m.duplication) * 5
        veryComplex == countScore(m.complexity, "very-complex")
        complex == countScore(m.complexity, "complex")
        s3 == s2 - veryComplex * 4
        s4 == s3 - complex * 2
        s5 == s4 - Len(m.circularDependencies) * 10
    IN  Max(0, Min(100, s5))

\* The record analyzeArchitecture returns for the four engine results; the
\* timestamp is the clock reading at the time of the return.
assembleAnalysis(m, timestamp) ==
    [returned |-> TRUE,
     analyzedAt |-> timestamp,
     coupling |-> m.coupling,
     duplication |-> m.duplication,
     complexity |-> m.complexity,
     circularDependencies |-> m.circularDependencies,
     healthScore |-> calculateHealthScore(m)]

-----------------------------------------------------------------------------
(* Catalogs                                                                *)

PathPool == << <<"a">>, <<"b">>, <<"c">>, <<"d">>, <<"e">>, <<"z">> >>

\* The relative specifier "./<path>" a catalog builder records for an import.
relativeTo(p) == <<".", "/">> \o p

Perms(n) == {f \in [1..n -> 1..n] : \A i, j \in 1..n : i # j => f[i] # f[j]}

\* Sequences without repetition over S, of length at most k.
SeqsUpTo(S, k) ==
    UNION {{s \in [1..m -> S] : \A i, j \in 1..m : i # j => s[i] # s[j]} : m \in 0..k}

mkComponent(p, deps) ==
    [name |-> p, path |-> p, dependencies |-> deps, linesOfCode |-> 0]

\* The specifiers "./<path>" of the first n paths of the pool.
SpecifiersOf(n) == {relativeTo(PathPool[i]) : i \in 1..n}

\* A catalog of n components in pool order with the dependency lists d.
GraphCatalog(n, d) == [i \in 1..n |-> mkComponent(PathPool[i], d[i])]

\* The ring p1 -> p2 -> ... -> pn -> p1 listed in the catalog order f.
RingCatalog(n, f) ==
    [i \in 1..n |->
        mkComponent(PathPool[f[i]], <<relativeTo(PathPool[(f[i] % n) + 1])>>)]

-----------------------------------------------------------------------------
(* Specification of the cycle detector                                     *)

\* Every catalog of at most MaxComponents components whose dependency lists
\* hold at most MaxDeps specifiers of components of the catalog, and every
\* ring of at most MaxRing components in every catalog order.
InitCycles ==
    /\ pc = "catalog"
    /\ cycles = <<>>
    /\ metrics = NoMetrics
    /\ record = NoRecord
    /\ NoPipeline
    /\ \/ \E n \in 1..MaxComponents :
            \E d \in [1..n -> SeqsUpTo(SpecifiersOf(n), MaxDeps)] :
                components = GraphCatalog(n, d)
       \/ \E n \in 1..MaxRing :
            \E f \in Perms(n) : components = RingCatalog(n, f)

\* The nodes expanded by the search from each start, start by start.
expansions(comps) ==
    [k \in 1..Len(comps) |->
        searchFrom(buildDependencyGraph(comps), comps[k].path, <<>>).expanded]

DetectCycles ==
    /\ pc = "catalog"
    /\ pc' = "cycles"
    /\ cycles' = detectCircularDependencies(components)
    /\ hist' = expansions(components)
    /\ UNCHANGED <<components, metrics, record, fs, fileCache, astCache, run, now>>

NextCycles == DetectCycles

SpecCycles == InitCycles /\ [][NextCycles]_vars

-----------------------------------------------------------------------------
(* Claims about the cycle detector (checked under SpecCycles)              *)

Nodes == {components[i].path : i \in 1..Len(components)}

\* The edges x -> y of the graph built by buildDependencyGraph.
EdgeSet ==
    LET g == buildDependencyGraph(components)
    IN  {e \in Nodes \X Nodes : e[2] \in Range(graphGet(g, e[1]))}

\* The graph is exactly one directed ring through all of its n nodes.
IsSimpleRing(n) ==
    /\ Len(components) = n
    /\ Cardinality(Nodes) = n
    /\ \E f \in [1..n -> Nodes] :
          /\ \A i, j \in 1..n : i # j => f[i] # f[j]
          /\ EdgeSet = {<<f[i], f[(i % n) + 1]>> : i \in 1..n}

\* Some simple directed cycle of the graph runs through exactly the nodes S.
HasSimpleCycleOn(S) ==
    LET k == Cardinality(S)
    IN  \E f \in [1..k -> S] :
          /\ \A i, j \in 1..k : i # j => f[i] # f[j]
          /\ \A i \in 1..k : <<f[i], f[(i % k) + 1]>> \in EdgeSet

Members(k) == Range(cycles[k].cycle)

\* C3: no two reported entries have the same set of member paths, and a
\* catalog whose graph is the 3-node ring yields exactly one entry, whatever
\* the catalog order.
C3_CycleReportedOnce ==
    pc = "cycles" =>
        /\ \A i, j \in 1..Len(cycles) : i # j => Members(i) # Members(j)
        /\ IsSimpleRing(3) => Len(cycles) = 1

\* C4: the 3-node ring A -> B -> C -> A is reported with severity error.
C4_ThreeCycleIsError ==
    (pc = "cycles" /\ IsSimpleRing(3)) =>
        \E k \in 1..Len(cycles) :
            Members(k) = Nodes /\ cycles[k].severity = "error"

\* C5: every reported entry has severity error exactly when its cycle list,
\* closing repeat included, has at most 3 elements, and warning otherwise;
\* a 5-node ring is reported, with severity warning.
C5_SeverityByLength ==
    pc = "cycles" =>
        /\ \A k \in 1..Len(cycles) :
              /\ cycles[k].severity \in {"error", "warning"}
              /\ cycles[k].severity = "error" <=> Len(cycles[k].cycle) <= 3
        /\ IsSimpleRing(5) =>
              /\ Len(cycles) >= 1
              /\ \A k \in 1..Len(cycles) :
                    Members(k) = Nodes /\ Len(cycles[k].cycle) = 6
                        /\ cycles[k].severity = "warning"

\* Reached: a 5-node ring has been analysed and reported with a warning.
C5_Witness ==
    /\ pc = "cycles"
    /\ IsSimpleRing(5)
    /\ \E k \in 1..Len(cycles) :
          Len(cycles[k].cycle) = 6 /\ cycles[k].severity = "warning"

\* Reached: a 2-node cycle has been reported with an error.
C5_WitnessError ==
    /\ pc = "cycles"
    /\ \E k \in 1..Len(cycles) :
          Len(cycles[k].cycle) = 3 /\ cycles[k].severity = "error"

\* C6: every reported cycle list is a closed walk of the graph in walk
\* order: it ends where it starts and each consecutive pair is an edge.
C6_CycleIsClosedWalk ==
    pc = "cycles" =>
        \A k \in 1..Len(cycles) :
            LET c == cycles[k].cycle
            IN  /\ Len(c) >= 2
                /\ c[1] = c[Len(c)]
                /\ \A i \in 1..(Len(c) - 1) : <<c[i], c[i + 1]>> \in EdgeSet

\* C7: every simple directed cycle of the graph is reported: some entry has
\* exactly its node set as members.
C7_AllCyclesCaught ==
    pc = "cycles" =>
        \A S \in SUBSET Nodes :
            (S # {} /\ HasSimpleCycleOn(S)) =>
                \E k \in 1..Len(cycles) : Members(k) = S


\* The nodes that a walk of one or more edges of E leads to from the nodes
\* of S, S being closed already or not.
RECURSIVE ReachIn(_, _)
ReachIn(E, S) ==
    LET more == S \cup {e[2] : e \in {d \in E : d[1] \in S}}
    IN  IF more = S THEN S ELSE ReachIn(E, more)

Successors(E, x) == {e[2] : e \in {d \in E : d[1] = x}}

\* Some directed cycle of the graph with the edges E, a self-loop
\* included: a node that a walk of one or more edges leads back to.
CyclicIn(E) == \E x \in Nodes : x \in ReachIn(E, Successors(E, x))

\* The nodes of S can be ordered into a closed walk of the graph with the
\* edges E that passes each of them once.
ClosedWalkOn(E, S) ==
    \E f \in [1..Cardinality(S) -> S] :
        /\ \A i, j \in 1..Cardinality(S) : i # j => f[i] # f[j]
        /\ \A i \in 1..Cardinality(S) : <<f[i], f[(i % Cardinality(S)) + 1]>> \in E

HasCycle == CyclicIn(EdgeSet)

\* C27: the detector reports something exactly when the graph has a
\* directed cycle, a self-loop included, and the distinct members of every
\* reported entry can be ordered into a closed walk of the graph.
C27_CyclesReportedIffCyclic ==
    pc = "cycles" =>
        \A E \in {EdgeSet} :
            /\ (cycles # <<>>) <=> CyclicIn(E)
            /\ \A k \in 1..Len(cycles) : ClosedWalkOn(E, Members(k))

\* C27 happens: a graph with a cycle and a node that leads into it but is
\* not on it has been searched, and an entry is reported without that node.
C27_Witness ==
    /\ pc = "cycles"
    /\ HasCycle
    /\ cycles # <<>>
    /\ \E E \in {EdgeSet} : \E x \in Nodes :
          /\ x \notin ReachIn(E, Successors(E, x))
          /\ \E y \in Successors(E, x) : <<y, y>> \in E
          /\ \A k \in 1..Len(cycles) : x \notin Members(k)

\* A graph without a cycle, but with edges, has been searched and nothing
\* is reported.
C27_WitnessAcyclic ==
    /\ pc = "cycles"
    /\ EdgeSet # {}
    /\ ~HasCycle
    /\ cycles = <<>>

\* C28: the search from each start expands every node at most once: the
\* list of the nodes it has expanded begins with the start, holds no node
\* twice and holds the nodes that can be reached from the start, so a
\* search makes at most as many expansions as the catalog has paths and
\* ends.
C28_EachNodeExpandedOnce ==
    pc = "cycles" =>
        /\ Len(hist) = Len(components)
        /\ \A E \in {EdgeSet} :
              \A k \in 1..Len(components) :
                  /\ hist[k][1] = components[k].path
                  /\ Cardinality(Range(hist[k])) = Len(hist[k])
                  /\ Range(hist[k]) = ReachIn(E, {components[k].path})
                  /\ Len(hist[k]) <= Cardinality(Nodes)

\* C28 happens: a graph with a cycle, a self-loop and a node that two
\* paths from the start lead to has been searched.
C28_Witness ==
    /\ pc = "cycles"
    /\ Len(components) = 4
    /\ Len(hist[1]) = 4
    /\ \E E \in {EdgeSet} :
          /\ \E x \in Nodes : <<x, x>> \in E
          /\ \E x, y \in Nodes : x # y /\ <<x, y>> \in E /\ <<y, x>> \in E
          /\ \E x, y, z \in Nodes :
                /\ Cardinality({x, y, z, components[1].path}) = 4
                /\ {<<components[1].path, x>>, <<components[1].path, y>>,
                    <<x, z>>, <<y, z>>} \subseteq E
-----------------------------------------------------------------------------
(* Specification of the health scorer: engine results of every size up to  *)
(* the bounds, scored and returned.                                        *)

\* n entries with the score label.
Labelled(n, label) == [i \in 1..n |-> [score |-> label]]

InitHealth ==
    /\ pc = "engines"
    /\ components = <<>>
    /\ cycles = <<>>
    /\ record = NoRecord
    /\ NoPipeline
    /\ \E h \in 0..MaxHigh, mc \in 0..MaxHarmless, g \in 0..MaxHarmless,
          d \in 0..MaxDuplications, v \in 0..MaxVeryComplex,
          c \in 0..MaxComplex, mf \in 0..MaxHarmless, k \in 0..MaxCircular :
          metrics =
            [coupling |-> Labelled(g, "good") \o Labelled(h, "high")
                            \o Labelled(mc, "moderate"),
             duplication |-> [i \in 1..d |-> [lines |-> 10]],
             complexity |-> Labelled(c, "complex") \o Labelled(mf, "moderate")
                              \o Labelled(v, "very-complex")
                              \o Labelled(mf, "simple"),
             circularDependencies |-> [i \in 1..k |-> [severity |-> "warning"]]]

ScoreHealth ==
    /\ pc = "engines"
    /\ pc' = "returned"
    /\ record' = assembleAnalysis(metrics, 1)
    /\ UNCHANGED <<components, cycles, metrics, pipelineVars>>

NextHealth == ScoreHealth

SpecHealth == InitHealth /\ [][NextHealth]_vars

-----------------------------------------------------------------------------
(* Claims about the health score (checked under SpecHealth)                *)

CountWhere(list, label) ==
    Cardinality({i \in 1..Len(list) : list[i].score = label})

\* The penalties of a returned record, counted on its own lists.
Penalties(r) ==
    3 * CountWhere(r.coupling, "high") + 5 * Len(r.duplication)
        + 4 * CountWhere(r.complexity, "very-complex")
        + 2 * CountWhere(r.complexity, "complex")
        + 10 * Len(r.circularDependencies)

\* C1: the health score of a returned record is an integer in [0,100]; it is
\* 0 when the penalties sum to more than 100 and 100 when nothing is found.
C1_HealthScoreInRange ==
    record.returned =>
        /\ record.healthScore \in 0..100
        /\ Penalties(record) > 100 => record.healthScore = 0
        /\ (record.coupling = <<>> /\ record.duplication = <<>>
              /\ record.complexity = <<>> /\ record.circularDependencies = <<>>)
              => record.healthScore = 100

\* Reached: a record whose penalties exceed 100 has been returned.
C1_Witness ==
    record.returned /\ Penalties(record) > 100 /\ record.healthScore = 0

\* C2: the health score is max(0, min(100, 100 - 3H - 5D - 4V - 2C - 10K))
\* with H, D, V, C, K counted on the lists of the same record.
C2_HealthScoreFormula ==
    record.returned =>
        record.healthScore =
            (IF 100 - Penalties(record) < 0 THEN 0
             ELSE IF 100 - Penalties(record) > 100 THEN 100
             ELSE 100 - Penalties(record))

\* Reached: a record with all five penalties and harmless entries, scored
\* strictly between 0 and 100.
C2_Witness ==
    /\ record.returned
    /\ CountWhere(record.coupling, "high") > 0
    /\ CountWhere(record.coupling, "moderate") > 0
    /\ Len(record.duplication) > 0
    /\ CountWhere(record.complexity, "very-complex") > 0
    /\ CountWhere(record.complexity, "complex") > 0
    /\ CountWhere(record.complexity, "simple") > 0
    /\ Len(record.circularDependencies) > 0
    /\ record.healthScore = 100 - Penalties(record)
    /\ record.healthScore \in 1..99

-----------------------------------------------------------------------------
(* The analysis run: analyzeArchitecture with its file reads               *)

MaxRuns == 3      \* invocations of analyzeArchitecture in one process
MaxWrites == 1    \* changes of a file by the environment
MaxClears == 1    \* calls of clearAnalysisCache

batchSize == 20

FilePaths == {PathPool[1], PathPool[2]}

\* path.join(repoPath, component.path), repoPath being the same in every
\* invocation.
fullPath(component) == component.path

Blank == [i \in 1..(minLines - 1) |-> "\n"]

\* The texts a file can hold: nothing, two texts of minLines lines that
\* differ in the last character, a text of minLines lines that does not
\* parse, and an arrow function on one line.
ContentPool ==
    {<<>>, Blank \o <<"a">>, Blank \o <<"b">>, Blank \o <<"(">>,
     <<"a", "=", ">", "a">>}

Unreadable == [readable |-> FALSE, content |-> <<>>]

FileStates == {Unreadable} \cup {[readable |-> TRUE, content |-> c] : c \in ContentPool}

NoEntry == [has |-> FALSE, content |-> <<>>]

Unseen == [seen |-> FALSE, content |-> <<>>]

\* !fileCache.get(filePath): no entry, or the empty string.
needsRead(cache, p) == ~cache[p].has \/ cache[p].content = <<>>

\* A failed read that yields a text of its own instead of the empty string
\* (the slip C22 is checked against).
contentReadPlaceholder(f) ==
    IF f.readable THEN f.content ELSE Blank \o <<"a">>

\* What getCachedFileContent returns when readFile has settled with f.
contentRead(f) == IF f.readable THEN f.content ELSE <<>>

\* fileCache after readFile has settled with f.
cacheAfterRead(cache, p, f) ==
    IF f.readable THEN [cache EXCEPT ![p] = [has |-> TRUE, content |-> f.content]]
    ELSE cache

\* The state an invocation works on, as one record.
world ==
    [pc |-> pc, cycles |-> cycles, metrics |-> metrics, record |-> record,
     fileCache |-> fileCache, astCache |-> astCache, run |-> run,
     hist |-> hist, now |-> now]

IdleRun ==
    [coupling |-> <<>>, candidates |-> <<>>, dupContent |-> <<>>,
     dupPending |-> {}, duplication |-> <<>>, batchStart |-> 0,
     cxPending |-> {}, cxMetrics |-> <<>>, complexity |-> <<>>]

\* The tail of analyzeArchitecture: the cycle detector, the health score and
\* the returned record.
finish(w) ==
    LET m == [coupling |-> w.run.coupling, duplication |-> w.run.duplication,
              complexity |-> w.run.complexity,
              circularDependencies |-> detectCircularDependencies(components)]
    IN  [w EXCEPT !.pc = "idle", !.metrics = m,
                  !.cycles = m.circularDependencies,
                  !.record = assembleAnalysis(m, w.now),
                  !.now = w.now + 1,
                  !.run = IdleRun,
                  !.hist.prev = w.record,
                  !.hist.compared = w.hist.quiet >= 2]

\* The continuation of analyzeComponentComplexity for the k-th component
\* once getCachedFileContent has given it content.
analyzeOne(w, k, content) ==
    LET p == fullPath(components[k])
        r == analyzeComponentComplexity(components[k], content, w.astCache[p])
    IN  [w EXCEPT !.astCache[p] = r.ast,
                  !.run.cxMetrics[k] = r.metrics,
                  !.run.cxPending = @ \ {k},
                  !.hist.seenCx[p] = [seen |-> TRUE, content |-> content]]

\* The flattening that takes the batch from its last component to its
\* first (the slip C11 is checked against).
RECURSIVE flattenBackwards(_, _, _)
flattenBackwards(cxMetrics, from, upto) ==
    IF from > upto THEN <<>>
    ELSE flattenBackwards(cxMetrics, from + 1, upto) \o cxMetrics[from]

\* batchMetrics.flat() for the components from to upto.
RECURSIVE flatten(_, _, _)
flatten(cxMetrics, from, upto) ==
    IF from > upto THEN <<>>
    ELSE cxMetrics[from] \o flatten(cxMetrics, from + 1, upto)

\* batch.map(...) for the components from k on: the synchronous part of
\* getCachedFileContent, which either has the content at once or starts a
\* read, followed for the former by the rest of the analysis.
RECURSIVE mapBatch(_, _, _)
mapBatch(w, k, upto) ==
    IF k > upto THEN w
    ELSE LET p == fullPath(components[k])
         IN  IF needsRead(w.fileCache, p)
             THEN mapBatch([w EXCEPT !.run.cxPending = @ \cup {k},
                                     !.hist.reads[p] = @ + 1], k + 1, upto)
             ELSE mapBatch(analyzeOne(w, k, w.fileCache[p].content), k + 1, upto)

\* The loop of calculateComplexity from the batch that starts at index i
\* (zero-based), and from the await of a batch once nothing is pending.
RECURSIVE startBatch(_, _)
RECURSIVE settleComplexity(_)
startBatch(w, i) ==
    IF i >= Len(components) THEN finish(w)
    ELSE settleComplexity(
             mapBatch([w EXCEPT !.pc = "complexity", !.run.batchStart = i],
                      i + 1, Min(i + batchSize, Len(components))))

settleComplexity(w) ==
    IF w.run.cxPending # {} THEN w
    ELSE LET i == w.run.batchStart
             upto == Min(i + batchSize, Len(components))
         IN  startBatch([w EXCEPT !.run.complexity =
                                      @ \o flatten(w.run.cxMetrics, i + 1, upto)],
                        i + batchSize)

\* detectDuplication from the await of the reads once nothing is pending,
\* and calculateComplexity after it.
settleDuplication(w) ==
    IF w.run.dupPending # {} THEN w
    ELSE startBatch([w EXCEPT !.run.duplication =
                                  compareContents(w.run.candidates, w.run.dupContent)],
                    0)

\* largeComponents.map(...): the synchronous part of getCachedFileContent
\* for the candidates from j on.
RECURSIVE mapCandidates(_, _)
mapCandidates(w, j) ==
    IF j > Len(w.run.candidates) THEN w
    ELSE LET p == fullPath(w.run.candidates[j])
         IN  IF needsRead(w.fileCache, p)
             THEN mapCandidates([w EXCEPT !.run.dupPending = @ \cup {j},
                                          !.hist.reads[p] = @ + 1], j + 1)
             ELSE mapCandidates(
                      [w EXCEPT !.run.dupContent[j] = w.fileCache[p].content,
                                !.hist.seenDup[p] =
                                    [seen |-> TRUE, content |-> w.fileCache[p].content]],
                      j + 1)

\* analyzeArchitecture up to its first await that has to wait.
beginRun(w) ==
    LET candidates == filterCandidates(components)
        started ==
            [w EXCEPT !.pc = "duplication",
                      !.run = [IdleRun EXCEPT
                                  !.coupling = calculateCoupling(components),
                                  !.candidates = candidates,
                                  !.dupContent = [j \in 1..Len(candidates) |-> <<>>],
                                  !.cxMetrics = [k \in 1..Len(components) |-> <<>>]],
                      !.hist.runs = @ + 1,
                      !.hist.quiet = Min(@ + 1, 2),
                      !.hist.startedEmpty =
                          \A p \in FilePaths :
                              ~w.fileCache[p].has /\ w.astCache[p] = NoAst,
                      !.hist.reads = [p \in FilePaths |-> 0],
                      !.hist.sets = [p \in FilePaths |-> 0],
                      !.hist.seenDup = [p \in FilePaths |-> Unseen],
                      !.hist.seenCx = [p \in FilePaths |-> Unseen],
                      !.hist.dirty = [p \in FilePaths |-> FALSE]]
    IN  settleDuplication(mapCandidates(started, 1))

-----------------------------------------------------------------------------
(* Specification of the analysis run                                       *)

\* The two-file catalog: a, which may import b, and b, which is either
\* large enough for the duplication filter or one line short of it.
PipelineCatalog(deps, linesOfB) ==
    <<[mkComponent(PathPool[1], deps) EXCEPT !.linesOfCode = minLines],
      [mkComponent(PathPool[2], <<>>) EXCEPT !.linesOfCode = linesOfB]>>

InitHist ==
    [runs |-> 0, writes |-> 0, clears |-> 0, quiet |-> 0,
     startedEmpty |-> TRUE, compared |-> FALSE, prev |-> NoRecord,
     reads |-> [p \in FilePaths |-> 0], sets |-> [p \in FilePaths |-> 0],
     seenDup |-> [p \in FilePaths |-> Unseen],
     seenCx |-> [p \in FilePaths |-> Unseen],
     dirty |-> [p \in FilePaths |-> FALSE]]

\* A fresh process: the module has just been loaded, both Maps are empty.
Init ==
    /\ pc = "idle"
    /\ cycles = <<>>
    /\ metrics = NoMetrics
    /\ record = NoRecord
    /\ fileCache = [p \in FilePaths |-> NoEntry]
    /\ astCache = [p \in FilePaths |-> NoAst]
    /\ run = IdleRun
    /\ hist = InitHist
    /\ now = 1
    /\ \E fa \in FileStates, fb \in FileStates :
          fs = [p \in FilePaths |-> IF p = PathPool[1] THEN fa ELSE fb]
    /\ \E deps \in {<<>>, <<relativeTo(PathPool[2])>>},
          linesOfB \in {minLines - 1, minLines} :
          components = PipelineCatalog(deps, linesOfB)

\* The invocation takes the state w.
commit(w) ==
    /\ pc' = w.pc
    /\ cycles' = w.cycles
    /\ metrics' = w.metrics
    /\ record' = w.record
    /\ fileCache' = w.fileCache
    /\ astCache' = w.astCache
    /\ run' = w.run
    /\ hist' = w.hist
    /\ now' = w.now
    /\ UNCHANGED <<components, fs>>

\* A caller invokes analyzeArchitecture(components, repoPath).
AnalyzeArchitecture ==
    /\ pc = "idle"
    /\ hist.runs < MaxRuns
    /\ commit(beginRun(world))

\* readFile settles for the j-th candidate of detectDuplication.
DuplicationRead(j) ==
    /\ pc = "duplication"
    /\ j \in run.dupPending
    /\ LET p == fullPath(run.candidates[j])
           f == fs[p]
       IN  commit(settleDuplication(
               [world EXCEPT !.fileCache = cacheAfterRead(@, p, f),
                             !.run.dupContent[j] = contentRead(f),
                             !.run.dupPending = @ \ {j},
                             !.hist.sets[p] = IF f.readable THEN @ + 1 ELSE @,
                             !.hist.seenDup[p] =
                                 [seen |-> TRUE, content |-> contentRead(f)]]))

\* readFile settles for the k-th component of the batch of
\* calculateComplexity.
ComplexityRead(k) ==
    /\ pc = "complexity"
    /\ k \in run.cxPending
    /\ LET p == fullPath(components[k])
           f == fs[p]
       IN  commit(settleComplexity(analyzeOne(
               [world EXCEPT !.fileCache = cacheAfterRead(@, p, f),
                             !.hist.sets[p] = IF f.readable THEN @ + 1 ELSE @],
               k, contentRead(f))))

\* The environment changes a file: new text, or the file becomes unreadable.
WriteFile(p, f) ==
    /\ hist.writes < MaxWrites
    /\ f # fs[p]
    /\ fs' = [fs EXCEPT ![p] = f]
    /\ hist' = [hist EXCEPT !.writes = @ + 1, !.dirty[p] = TRUE, !.quiet = 0]
    /\ UNCHANGED <<pc, components, cycles, metrics, record, fileCache,
                   astCache, run, now>>

\* An importer of the module calls clearAnalysisCache().
clearAnalysisCache ==
    /\ hist.clears < MaxClears
    /\ fileCache' = [p \in FilePaths |-> NoEntry]
    /\ astCache' = [p \in FilePaths |-> NoAst]
    /\ hist' = [hist EXCEPT !.clears = @ + 1]
    /\ UNCHANGED <<pc, components, cycles, metrics, record, fs, run, now>>

Next ==
    \/ AnalyzeArchitecture
    \/ \E j \in 1..2 : DuplicationRead(j)
    \/ \E k \in 1..2 : ComplexityRead(k)
    \/ \E p \in FilePaths, f \in FileStates : WriteFile(p, f)
    \/ clearAnalysisCache

Spec == Init /\ [][Next]_vars

-----------------------------------------------------------------------------
(* Claims about the content cache (checked under Spec)                     *)

\* C8: the content cache lives for exactly one invocation: every invocation
\* starts with both Maps empty, and what the engines of an invocation have
\* observed for a path that has not been written since the invocation
\* began is the text the file holds.
C8_CacheLivesOneInvocation ==
    /\ hist.runs > 0 => hist.startedEmpty
    /\ \A p \in FilePaths :
          ~hist.dirty[p] =>
              /\ hist.seenDup[p].seen => hist.seenDup[p].content = contentRead(fs[p])
              /\ hist.seenCx[p].seen => hist.seenCx[p].content = contentRead(fs[p])

\* C9: within one run the entry of a path is written once and then only
\* read: no path is read from disk twice, no entry is set twice, and the two
\* engines observe the same content for a path.
C9_CacheWriteOnce ==
    \A p \in FilePaths :
        /\ hist.reads[p] <= 1
        /\ hist.sets[p] <= 1
        /\ (hist.seenDup[p].seen /\ hist.seenCx[p].seen)
              => hist.seenDup[p].content = hist.seenCx[p].content

withoutTimestamp(r) == [r EXCEPT !.analyzedAt = 0]

\* C10: two successive invocations, with no file changed from the start of
\* the first to the end of the second, return records that are equal in
\* every field but analyzedAt.
C10_RerunIsIdentical ==
    (record.returned /\ hist.prev.returned /\ hist.compared)
        => withoutTimestamp(record) = withoutTimestamp(hist.prev)
-----------------------------------------------------------------------------
(* calculateComplexity: the batches and the order of the results           *)

MaxLate == 2        \* files of a catalog whose analysis settles out of turn
MaxFunctions == 2   \* function entries one file gives
CountPeriod == 2    \* the numbers of entries repeat with this period

DigitChars == <<"0", "1", "2", "3", "4", "5", "6", "7", "8", "9">>

\* The decimal digits of k.
RECURSIVE decimal(_)
decimal(k) ==
    IF k < 10 THEN <<DigitChars[k + 1]>>
    ELSE decimal(k \div 10) \o <<DigitChars[(k % 10) + 1]>>

\* The path of the k-th file of a long catalog: "f" and the decimal digits
\* of k.
numberedPath(k) == <<"f">> \o decimal(k)

\* A catalog of n components without dependencies.
LongCatalog(n) == [k \in 1..n |-> mkComponent(numberedPath(k), <<>>)]

FunctionNames == <<"anonymous", "g">>

\* What analyzeComponentComplexity resolves with for a component whose file
\* gives count function entries: one metric per entry, in the order of the
\* entries, each naming the component's path.
analysisResult(component, count) ==
    [f \in 1..count |->
        metricOf(component, [name |-> FunctionNames[f], body |-> <<"x">>, lines |-> 1])]

\* batch.map(...) over the rest of the catalog and not over one batch of
\* it (the slip C30 is checked against).
dispatchRest(c, i) ==
    LET inBatch(k) == i < k /\ k <= Len(components)
    IN  [c EXCEPT
            !.pc = "complexity",
            !.run.batchStart = i,
            !.run.cxPending = {k \in 1..Len(components) :
                                  inBatch(k) /\ fs[components[k].path].late},
            !.run.cxMetrics =
                [k \in 1..Len(components) |->
                    IF inBatch(k) /\ ~fs[components[k].path].late
                    THEN analysisResult(components[k],
                                        fs[components[k].path].functions)
                    ELSE @[k]]]

\* batch.map(...) for the batch that starts at index i (zero-based): every
\* analysis is started; those whose file is not late have settled, in
\* catalog order, by the time the first late one does.
dispatchBatch(c, i) ==
    LET upto == Min(i + batchSize, Len(components))
        inBatch(k) == i < k /\ k <= upto
    IN  [c EXCEPT
            !.pc = "complexity",
            !.run.batchStart = i,
            !.run.cxPending = {k \in 1..Len(components) :
                                  inBatch(k) /\ fs[components[k].path].late},
            !.run.cxMetrics =
                [k \in 1..Len(components) |->
                    IF inBatch(k) /\ ~fs[components[k].path].late
                    THEN analysisResult(components[k],
                                        fs[components[k].path].functions)
                    ELSE @[k]]]

\* The for loop of calculateComplexity from the batch that starts at i, and
\* the await of Promise.all once every analysis of the batch has settled:
\* the results of the batch are flattened in the order of the batch and
\* pushed.
RECURSIVE batchLoop(_, _)
RECURSIVE awaitBatch(_)
batchLoop(c, i) ==
    IF i >= Len(components) THEN [c EXCEPT !.pc = "returned"]
    ELSE awaitBatch(dispatchBatch(c, i))

awaitBatch(c) ==
    IF c.run.cxPending # {} THEN c
    ELSE batchLoop(
             [c EXCEPT !.run.complexity =
                 @ \o flatten(c.run.cxMetrics, c.run.batchStart + 1,
                              Min(c.run.batchStart + batchSize, Len(components)))],
             c.run.batchStart + batchSize)

\* The catalogs: none, a few files, and one batch, or one batch and a
\* little more.
CatalogSizes == {0, 1, 2, 3, batchSize, batchSize + 1, batchSize + 2}

\* The sets of at most MaxLate of the n files.
LateSets(n) == {{}} \cup {{s[i] : i \in 1..MaxLate} : s \in [1..MaxLate -> 1..n]}

InitComplexity ==
    /\ pc = "idle"
    /\ cycles = <<>>
    /\ metrics = NoMetrics
    /\ record = NoRecord
    /\ fileCache = <<>> /\ astCache = <<>> /\ now = 0
    /\ run = IdleRun
    /\ hist = [settled |-> <<>>]
    /\ \E n \in CatalogSizes :
          /\ components = LongCatalog(n)
          /\ \E late \in LateSets(n), counts \in [0..(CountPeriod - 1) -> 0..MaxFunctions] :
                /\ fs = [p \in {numberedPath(k) : k \in 1..n} |->
                            LET k == CHOOSE j \in 1..n : numberedPath(j) = p
                            IN  [late |-> k \in late,
                                 functions |-> counts[k % CountPeriod]]]

takeComplexity(c) ==
    /\ pc' = c.pc
    /\ run' = c.run
    /\ hist' = c.hist
    /\ UNCHANGED <<components, cycles, metrics, record, fs, fileCache, astCache, now>>

\* A caller invokes calculateComplexity(components, repoPath).
CalculateComplexity ==
    /\ pc = "idle"
    /\ takeComplexity(batchLoop(
           [pc |-> pc, hist |-> hist,
            run |-> [run EXCEPT !.cxMetrics = [k \in 1..Len(components) |-> <<>>]]],
           0))

\* The analysis of the k-th component, a late one, settles.
AnalysisSettles(k) ==
    /\ pc = "complexity"
    /\ k \in run.cxPending
    /\ takeComplexity(awaitBatch(
           [pc |-> pc,
            hist |-> [hist EXCEPT !.settled = Append(@, k)],
            run |-> [run EXCEPT
                        !.cxPending = @ \ {k},
                        !.cxMetrics[k] =
                            analysisResult(components[k],
                                           fs[components[k].path].functions)]]))

NextComplexity ==
    \/ CalculateComplexity
    \/ \E k \in 1..(batchSize + MaxLate) : AnalysisSettles(k)

SpecComplexity == InitComplexity /\ [][NextComplexity]_vars

\* The entries of the components from k to n, one component after the
\* other, each with its own entries in their order.
RECURSIVE ByComponent(_, _)
ByComponent(k, n) ==
    IF k > n THEN <<>>
    ELSE analysisResult(components[k], fs[components[k].path].functions)
            \o ByComponent(k + 1, n)

\* C11: what calculateComplexity returns is the entries of the catalog's
\* components in catalog order, component by component, in whatever order
\* the analyses of a batch have settled.
C11_ComplexityInCatalogOrder ==
    pc = "returned" => run.complexity = ByComponent(1, Len(components))

\* C11 happens: a catalog of more than one batch has been analysed, two
\* analyses of the first batch have settled in the reverse of their catalog
\* order, and both have given entries.
C11_Witness ==
    /\ pc = "returned"
    /\ Len(components) > batchSize
    /\ Len(hist.settled) = 2
    /\ hist.settled[1] > hist.settled[2]
    /\ hist.settled[1] <= batchSize
    /\ \A j \in 1..2 : fs[components[hist.settled[j]].path].functions > 0
    /\ run.complexity = ByComponent(1, Len(components))
-----------------------------------------------------------------------------
(* Claims about the duplication detector in an analysis run (checked under *)
(* Spec)                                                                   *)

\* The two files of the catalog hold the same text of at least minLines
\* lines, both components pass the filter of the detector, and no file has
\* been written since the last invocation began.
IdenticalFiles ==
    /\ \A k \in 1..2 : isCandidate(components[k])
    /\ \A p \in FilePaths : fs[p].readable /\ ~hist.dirty[p]
    /\ fs[PathPool[1]].content = fs[PathPool[2]].content
    /\ Len(splitLines(fs[PathPool[1]].content)) >= minLines

\* C12: when an invocation has returned and the files of two candidate
\* components hold the same text of at least 10 lines, the record holds
\* exactly one duplication instance, which names the two paths and has
\* similarity 1.
C12_IdenticalFilesOneInstance ==
    (pc = "idle" /\ record.returned /\ IdenticalFiles)
        => /\ Len(record.duplication) = 1
           /\ record.duplication[1].files = <<PathPool[1], PathPool[2]>>
           /\ record.duplication[1].similarity = Ratio(1, 1)

\* The same for an invocation that began with both Maps empty.
C12_HoldsOnEmptyCache ==
    (pc = "idle" /\ record.returned /\ IdenticalFiles /\ hist.startedEmpty)
        => /\ Len(record.duplication) = 1
           /\ record.duplication[1].files = <<PathPool[1], PathPool[2]>>
           /\ record.duplication[1].similarity = Ratio(1, 1)
-----------------------------------------------------------------------------
(* Specification of the duplication detector                               *)

MaxFiles == 3     \* components of a catalog of the detector

Newlines(n) == [i \in 1..n |-> "\n"]

\* The texts a file of the detector can hold: two texts of minLines lines
\* that differ in the last character, two that differ in the first, a text
\* of more than twice minLines lines, a text of one line, and nothing.
LongText == Newlines(2 * minLines) \o <<"a">>

DuplicationTexts ==
    {Blank \o <<"a">>, Blank \o <<"b">>, <<"a">> \o Blank, <<"b">> \o Blank,
     LongText, <<"a">>, <<>>}

DuplicationFiles ==
    {Unreadable} \cup {[readable |-> TRUE, content |-> c] : c \in DuplicationTexts}

\* The paths the k-th component can have: a plain one, and one that marks a
\* test file.
testPath(p) == p \o <<".", "t", "e", "s", "t", ".", "t", "s">>
specPath(p) == p \o <<".", "s", "p", "e", "c", ".", "t", "s">>

PathsOf(k) == {PathPool[k], IF k % 2 = 1 THEN testPath(PathPool[k])
                            ELSE specPath(PathPool[k])}

\* Every catalog of at most MaxFiles components, each one line short of the
\* filter or not, with every file of DuplicationFiles behind every path
\* (the long text behind the first only); the process is fresh, so every
\* content is read from the file.
InitDuplication ==
    /\ pc = "idle"
    /\ cycles = <<>>
    /\ metrics = NoMetrics
    /\ record = NoRecord
    /\ fileCache = <<>> /\ astCache = <<>> /\ hist = <<>> /\ now = 0
    /\ run = IdleRun
    /\ \E n \in 0..MaxFiles :
        \E paths \in [1..n -> UNION {PathsOf(k) : k \in 1..n}],
           loc \in [1..n -> {minLines - 1, minLines}],
           files \in [1..n -> DuplicationFiles] :
            /\ \A k \in 1..n : paths[k] \in PathsOf(k)
            /\ \A k \in 2..n : files[k].content # LongText
            /\ components =
                  [k \in 1..n |->
                      [mkComponent(paths[k], <<>>) EXCEPT !.linesOfCode = loc[k]]]
            /\ fs = [p \in {paths[k] : k \in 1..n} |->
                        files[CHOOSE k \in 1..n : paths[k] = p]]

\* A caller invokes detectDuplication(components, repoPath); every read
\* settles with what the file holds.
DetectDuplication ==
    /\ pc = "idle"
    /\ pc' = "returned"
    /\ LET candidates == filterCandidates(components)
           contents == [j \in 1..Len(candidates) |->
                           contentRead(fs[fullPath(candidates[j])])]
       IN  run' = [run EXCEPT !.candidates = candidates,
                              !.dupContent = contents,
                              !.duplication = compareContents(candidates, contents)]
    /\ UNCHANGED <<components, cycles, metrics, record, fs, fileCache,
                   astCache, hist, now>>

NextDuplication == DetectDuplication

SpecDuplication == InitDuplication /\ [][NextDuplication]_vars

-----------------------------------------------------------------------------
(* Claims about the duplication detector (checked under SpecDuplication)   *)

\* The number of positions at which two texts of the same length differ.
Hamming(a, b) == Cardinality({i \in 1..Len(a) : a[i] # b[i]})

\* Some instance of the result names the candidates i and j, in this
\* order, with the similarity sim.
Reported(i, j, sim) ==
    \E k \in 1..Len(run.duplication) :
        /\ run.duplication[k].files = <<run.candidates[i].path, run.candidates[j].path>>
        /\ run.duplication[k].similarity = sim

\* C13: two candidates whose files have the same length L and the same
\* number of lines, at least 10, and differ in one character of one line
\* (edit distance 1) are scored (L - 1)/L, which is below 1, and reported
\* with that similarity when it is at least 0.85.
C13_SingleLineDifferenceScored ==
    pc = "returned" =>
        \A i, j \in 1..Len(run.candidates) :
            LET a == run.dupContent[i]
                b == run.dupContent[j]
            IN  (/\ i < j
                 /\ Len(a) = Len(b)
                 /\ Len(splitLines(a)) >= minLines
                 /\ Len(splitLines(a)) = Len(splitLines(b))
                 /\ Hamming(a, b) = 1
                 /\ RatioGe(Ratio(Len(a) - 1, Len(a)), 85, 100))
                    => Reported(i, j, Ratio(Len(a) - 1, Len(a)))
\* The catalog entry with the path p passes the filter of the claim: at
\* least 10 lines of code, and a path with neither ".test." nor ".spec.".
EligiblePath(p) ==
    \E k \in 1..Len(components) :
        /\ components[k].path = p
        /\ components[k].linesOfCode >= 10
        /\ ~includes(p, <<".", "t", "e", "s", "t", ".">>)
        /\ ~includes(p, <<".", "s", "p", "e", "c", ".">>)

\* C15: every instance returned names two distinct components, each with
\* at least 10 lines of code in the catalog and a path that marks no test,
\* and no unordered pair of paths is named by two instances.
C15_InstancesNameCandidatePairs ==
    pc = "returned" =>
        /\ \A k \in 1..Len(run.duplication) :
              /\ Len(run.duplication[k].files) = 2
              /\ run.duplication[k].files[1] # run.duplication[k].files[2]
              /\ EligiblePath(run.duplication[k].files[1])
              /\ EligiblePath(run.duplication[k].files[2])
        /\ \A k, l \in 1..Len(run.duplication) :
              k # l => Range(run.duplication[k].files) # Range(run.duplication[l].files)

\* C15 happens: an instance has been returned for two files while a third
\* component, which holds the same text, is left out by the filter.
C15_Witness ==
    /\ pc = "returned"
    /\ Len(run.duplication) = 1
    /\ \E k \in 1..Len(components) :
          /\ ~EligiblePath(components[k].path)
          /\ \A p \in DOMAIN fs : fs[p] = fs[components[k].path]
          /\ fs[components[k].path].readable
    /\ Len(components) = 3

\* C15 happens with more than one instance: three files hold the same text
\* and every pair of them is reported once.
C15_WitnessAllPairs ==
    /\ pc = "returned"
    /\ Len(run.duplication) = 3
    /\ \A k, l \in 1..3 :
          k # l => Range(run.duplication[k].files) # Range(run.duplication[l].files)
-----------------------------------------------------------------------------
(* Specification of the detector on large catalogs                         *)

CapCatalog == 448   \* candidates of the largest catalog: 100128 pairs

\* The file behind a path: a path with no file cannot be read.
fileAt(p) == IF p \in DOMAIN fs THEN fs[p] ELSE Unreadable

\* The texts of the files that exist: minLines lines, equal or different
\* in the last character.
LoopTexts == {Blank \o <<"a">>, Blank \o <<"b">>}

\* A catalog of n candidates.
CandidateCatalog(n) ==
    [k \in 1..n |->
        [mkComponent(numberedPath(k), <<>>) EXCEPT !.linesOfCode = minLines]]

\* The files with the texts given for the components of present.
FilesOf(present, texts) ==
    [p \in {numberedPath(k) : k \in present} |->
        [readable |-> TRUE,
         content |-> texts[CHOOSE k \in present : numberedPath(k) = p]]]

\* Catalogs of candidates: up to MaxFiles + 2 of them with a file of
\* LoopTexts behind any of the paths; and CapCatalog - 1 or CapCatalog of
\* them with the same text behind the first two and the last two paths.
\* All other paths have no file.
InitPairLoop ==
    /\ pc = "idle"
    /\ cycles = <<>>
    /\ metrics = NoMetrics
    /\ record = NoRecord
    /\ fileCache = <<>> /\ astCache = <<>> /\ hist = <<>> /\ now = 0
    /\ run = loopStart
    /\ \E n \in (0..(MaxFiles + 2)) \cup {CapCatalog - 1, CapCatalog} :
          /\ components = CandidateCatalog(n)
          /\ \/ /\ n <= MaxFiles + 2
                /\ \E present \in SUBSET (1..n) :
                      \E texts \in [present -> LoopTexts] :
                          fs = FilesOf(present, texts)
             \/ /\ n > MaxFiles + 2
                /\ fs = FilesOf({1, 2, n - 1, n},
                                [k \in {1, 2, n - 1, n} |-> Blank \o <<"a">>])

\* A caller invokes detectDuplication(components, repoPath); every read
\* settles with what the file holds, and the locals of the loop are kept
\* as they are when the function returns.
DetectDuplicationLoop ==
    /\ pc = "idle"
    /\ pc' = "returned"
    /\ LET candidates == filterCandidates(components)
           contents == [k \in 1..Len(candidates) |->
                           contentRead(fileAt(fullPath(candidates[k])))]
       IN  run' = pairLoop(componentContents(candidates, contents))
    /\ UNCHANGED <<components, cycles, metrics, record, fs, fileCache,
                   astCache, hist, now>>

NextPairLoop == DetectDuplicationLoop

SpecPairLoop == InitPairLoop /\ [][NextPairLoop]_vars

-----------------------------------------------------------------------------
(* Claims about the comparison budget (checked under SpecPairLoop)         *)

\* The place of the pair (i, j), i < j, in the order of the loop over n
\* candidates.
PairNumber(i, j, n) == (i - 1) * n - ((i * (i - 1)) \div 2) + (j - i)

\* The index of the component with the path p.
IndexOfPath(p) == CHOOSE k \in 1..Len(components) : components[k].path = p

\* The pairs the body of the loop has run for: every turn counted but the
\* one that found the budget spent.
Examined == IF run.stoppedEarly THEN run.comparisons - 1 ELSE run.comparisons

Present == {k \in 1..Len(components) : components[k].path \in DOMAIN fs}

\* The pairs of files that exist (any two of them are duplicates) among
\* the pairs examined.
ExaminedDuplicates ==
    {pr \in Present \X Present :
        /\ pr[1] < pr[2]
        /\ PairNumber(pr[1], pr[2], Len(components)) <= Examined}

InstancePair(k) ==
    <<IndexOfPath(run.instances[k].files[1]), IndexOfPath(run.instances[k].files[2])>>

-----------------------------------------------------------------------------
(* Specification of similarity                                             *)

MaxLen == 4     \* length of the strings compared

Alphabet == {"a", "b", "c"}

\* The strings over Alphabet of length at most n.
StringsUpTo(n) == UNION {[1..m -> Alphabet] : m \in 0..n}

InitSimilarity ==
    /\ pc = "idle"
    /\ cycles = <<>>
    /\ metrics = NoMetrics
    /\ record = NoRecord
    /\ components = <<>>
    /\ fs = <<>> /\ fileCache = <<>> /\ astCache = <<>> /\ hist = <<>> /\ now = 0
    /\ \E s1 \in StringsUpTo(MaxLen), s2 \in StringsUpTo(MaxLen) :
          run = [s1 |-> s1, s2 |-> s2]

\* A caller computes similarity(s1, s2), and similarity(s2, s1).
Similarity ==
    /\ pc = "idle"
    /\ pc' = "returned"
    /\ run' = [s1 |-> run.s1, s2 |-> run.s2,
               result |-> similarity(run.s1, run.s2),
               swapped |-> similarity(run.s2, run.s1)]
    /\ UNCHANGED <<components, cycles, metrics, record, fs, fileCache,
                   astCache, hist, now>>

NextSimilarity == Similarity

SpecSimilarity == InitSimilarity /\ [][NextSimilarity]_vars

-----------------------------------------------------------------------------
(* Claims about similarity (checked under SpecSimilarity)                  *)

\* The edit distance of the first i characters of a and the first j of b:
\* the least number of insertions, deletions and substitutions of one
\* character that turn the one into the other.
RECURSIVE EditDistance(_, _, _, _)
EditDistance(a, b, i, j) ==
    IF i = 0 THEN j
    ELSE IF j = 0 THEN i
    ELSE Min(Min(EditDistance(a, b, i - 1, j) + 1,
                 EditDistance(a, b, i, j - 1) + 1),
             EditDistance(a, b, i - 1, j - 1) + (IF a[i] = b[j] THEN 0 ELSE 1))

Distance(a, b) == EditDistance(a, b, Len(a), Len(b))

\* C16: similarity(a, b) is (max(|a|, |b|) - d(a, b)) / max(|a|, |b|) for
\* the edit distance d, 1 for two empty strings and for a string and
\* itself, and a number from 0 to 1.
C16_SimilarityIsNormalisedDistance ==
    pc = "returned" =>
        LET longest == Max(Len(run.s1), Len(run.s2))
        IN  /\ longest > 0 =>
                  /\ run.result.num * longest
                        = (longest - Distance(run.s1, run.s2)) * run.result.den
                  /\ run.result.den > 0
            /\ longest = 0 => run.result.num = run.result.den
            /\ run.s1 = run.s2 => run.result.num = run.result.den
            /\ 0 <= run.result.num /\ run.result.num <= run.result.den

\* C16 happens: two different strings of different lengths, some of whose
\* characters are kept, have been compared.
C16_Witness ==
    /\ pc = "returned"
    /\ Len(run.s1) < Len(run.s2)
    /\ Len(run.s1) > 1
    /\ Distance(run.s1, run.s2) > Len(run.s2) - Len(run.s1)
    /\ Distance(run.s1, run.s2) < Len(run.s2)
    /\ run.result.num * Len(run.s2)
          = (Len(run.s2) - Distance(run.s1, run.s2)) * run.result.den

\* C16 happens for a string and itself, and for two empty strings.
C16_WitnessEqual ==
    /\ pc = "returned"
    /\ run.s1 = run.s2
    /\ run.result = Ratio(1, 1)

\* C17: similarity(a, b) = similarity(b, a), strings of equal length
\* included.
C17_SimilaritySymmetric ==
    pc = "returned" => run.result = run.swapped

\* C17 happens: two different strings of the same length, and two of
\* different lengths, whose similarity is neither 0 nor 1.
C17_Witness ==
    /\ pc = "returned"
    /\ Len(run.s1) = Len(run.s2)
    /\ run.s1 # run.s2
    /\ run.result = run.swapped
    /\ run.result.num > 0 /\ run.result.num < run.result.den

C17_WitnessLengths ==
    /\ pc = "returned"
    /\ Len(run.s1) > Len(run.s2)
    /\ run.result = run.swapped
    /\ run.result.num > 0 /\ run.result.num < run.result.den
-----------------------------------------------------------------------------
(* Specification of the coupling analyzer                                  *)

MaxCoupled == 3       \* components of a small catalog
MaxSpecifiers == 2    \* dependency specifiers of a component of a small catalog
MaxEfferent == 11     \* relative imports of the hub of a star catalog
MaxDependents == 6    \* components around the hub of a star catalog

\* A component with a name and a path that differ.
namedComponent(name, deps) ==
    [name |-> name, path |-> <<"s", "/">> \o name \o <<".", "t", "s">>,
     dependencies |-> deps, linesOfCode |-> 0]

\* The names of the components of a small catalog, in catalog order.
NamePool == << <<"a">>, <<"b">>, <<"a", "b">> >>

\* The specifiers of a small catalog: relative imports of the three
\* components, a package, and an alias import.
SpecifierPool ==
    {<<".", "/", "a">>, <<".", "/", "b">>, <<".", ".", "/", "a", "b">>,
     <<"b">>, <<"@", "/", "c">>}

\* Sequences over S of length at most k.
ListsUpTo(S, k) == UNION {[1..m -> S] : m \in 0..k}

\* The star catalog: the hub h with e relative imports, and r components
\* d1 .. dr that import the hub with the specifier dep.
StarCatalog(e, r, dep) ==
    <<namedComponent(<<"h">>, [k \in 1..e |-> <<".", "/", "x">> \o decimal(k)])>>
        \o [k \in 1..r |-> namedComponent(<<"d">> \o decimal(k), <<dep>>)]

InitCoupling ==
    /\ pc = "idle"
    /\ cycles = <<>>
    /\ metrics = NoMetrics
    /\ record = NoRecord
    /\ NoPipeline
    /\ \/ \E n \in 0..MaxCoupled :
            \E deps \in [1..n -> ListsUpTo(SpecifierPool, MaxSpecifiers)] :
                components = [k \in 1..n |-> namedComponent(NamePool[k], deps[k])]
       \/ \E e \in 0..MaxEfferent, r \in 0..MaxDependents,
             dep \in {<<".", "/", "h">>, <<"@", "/", "h">>} :
                components = StarCatalog(e, r, dep)

\* A caller invokes calculateCoupling(components).
CalculateCoupling ==
    /\ pc = "idle"
    /\ pc' = "returned"
    /\ metrics' = [metrics EXCEPT !.coupling = calculateCoupling(components)]
    /\ UNCHANGED <<components, cycles, record, pipelineVars>>

NextCoupling == CalculateCoupling

SpecCoupling == InitCoupling /\ [][NextCoupling]_vars

-----------------------------------------------------------------------------
(* Claims about the coupling analyzer (checked under SpecCoupling)         *)

\* The component i has a dependency specifier that contains the name of
\* the component k.
Names(i, k) ==
    \E d \in 1..Len(components[i].dependencies) :
        includes(components[i].dependencies[d], components[k].name)

\* C18: afferentCoupling of a component is the number of the other
\* components that have a specifier containing its name, and
\* efferentCoupling the number of its own specifiers that start with ".".
C18_AfferentCountsOthers ==
    pc = "returned" =>
        \A k \in 1..Len(components) :
            /\ metrics.coupling[k].afferentCoupling
                  = Cardinality({i \in 1..Len(components) : i # k /\ Names(i, k)})
            /\ metrics.coupling[k].efferentCoupling
                  = Cardinality({d \in 1..Len(components[k].dependencies) :
                                    components[k].dependencies[d][1] = "."})

\* C19: the instability of every component is efferent/(afferent +
\* efferent), a number from 0 to 1, and 0 when afferent + efferent = 0.
C19_InstabilityInRange ==
    pc = "returned" =>
        \A k \in 1..Len(metrics.coupling) :
            LET m == metrics.coupling[k]
                total == m.afferentCoupling + m.efferentCoupling
            IN  /\ m.instability.den > 0
                /\ m.instability.num * total = m.efferentCoupling * m.instability.den
                /\ 0 <= m.instability.num
                /\ m.instability.num <= m.instability.den
                /\ total = 0 => m.instability.num = 0

\* C19 happens: a catalog holds a component without any coupling, one
\* that only imports, and one whose instability lies strictly between 0
\* and 1.
C19_Witness ==
    /\ pc = "returned"
    /\ \E k \in 1..Len(metrics.coupling) :
          /\ metrics.coupling[k].afferentCoupling + metrics.coupling[k].efferentCoupling = 0
          /\ metrics.coupling[k].instability.num = 0
    /\ \E k \in 1..Len(metrics.coupling) :
          /\ metrics.coupling[k].afferentCoupling = 0
          /\ metrics.coupling[k].instability.num = metrics.coupling[k].instability.den
    /\ \E k \in 1..Len(metrics.coupling) :
          /\ 0 < metrics.coupling[k].instability.num
          /\ metrics.coupling[k].instability.num < metrics.coupling[k].instability.den

\* The score the bands give for an instability and an efferent coupling.
Band(instability, efferent) ==
    IF instability.num * 10 > 7 * instability.den \/ efferent > 10 THEN "high"
    ELSE IF instability.num * 10 > 5 * instability.den \/ efferent > 5 THEN "moderate"
    ELSE "good"

\* C20: the score of every component follows the bands (high above 0.7 or
\* above 10 imports, moderate above 0.5 or above 5 imports, good
\* otherwise), and the result holds one metric for each component of the
\* catalog, with its path, in catalog order.
C20_ScoreBands ==
    pc = "returned" =>
        /\ Len(metrics.coupling) = Len(components)
        /\ \A k \in 1..Len(components) :
              /\ metrics.coupling[k].component = components[k].path
              /\ metrics.coupling[k].score
                    = Band(metrics.coupling[k].instability,
                           metrics.coupling[k].efferentCoupling)

\* C20 happens: the hub of a star has more than 10 imports and an
\* instability of at most 0.7, and is scored high.
C20_Witness ==
    /\ pc = "returned"
    /\ Len(components) > 1
    /\ metrics.coupling[1].efferentCoupling > 10
    /\ metrics.coupling[1].instability.num * 10 <= 7 * metrics.coupling[1].instability.den
    /\ metrics.coupling[1].score = "high"
    /\ metrics.coupling[1].component = components[1].path

\* C20 happens at the edges of the bands: an instability of exactly 0.7 is
\* moderate, one of exactly 0.5 with 5 imports is good, and 6 imports with
\* an instability of at most 0.5 are moderate.
C20_WitnessEdges ==
    /\ pc = "returned"
    /\ metrics.coupling # <<>>
    /\ \/ /\ metrics.coupling[1].instability = Ratio(7, 10)
          /\ metrics.coupling[1].score = "moderate"
       \/ /\ metrics.coupling[1].instability = Ratio(1, 2)
          /\ metrics.coupling[1].efferentCoupling = 5
          /\ metrics.coupling[1].score = "good"
-----------------------------------------------------------------------------
(* Specification of one analysis of a catalog in a fresh process           *)

MaxImports == 2     \* dependency specifiers of a component of the catalog

\* The results of the four engines for an invocation that starts with both
\* caches empty, over files that do not change while it runs: every read
\* settles with what the file holds, the duplication engine compares the
\* contents of the candidates, and the complexity engine analyses every
\* component from its content, batch after batch in catalog order.
freshMetrics(comps, files) ==
    LET candidates == filterCandidates(comps)
        contents == [j \in 1..Len(candidates) |->
                        contentRead(files[fullPath(candidates[j])])]
        cxMetrics == [k \in 1..Len(comps) |->
                         analyzeComponentComplexity(comps[k],
                             contentRead(files[fullPath(comps[k])]), NoAst).metrics]
    IN  [coupling |-> calculateCoupling(comps),
         duplication |-> compareContents(candidates, contents),
         complexity |-> flatten(cxMetrics, 1, Len(comps)),
         circularDependencies |-> detectCircularDependencies(comps)]

\* The names of the four components, in catalog order.
FourNames == << <<"a">>, <<"b">>, <<"c">>, <<"d">> >>

\* The specifiers the k-th component can hold, in the order of its imports:
\* relative imports of the three other components and a package whose name
\* contains the name of the first component.
SpecifiersFor(k) ==
    SelectSeq([i \in 1..4 |-> relativeTo(FourNames[i])],
              LAMBDA s : s # relativeTo(FourNames[k]))
        \o << <<"x", "a">> >>

\* The dependency lists of the k-th component: at most MaxImports of its
\* specifiers, in their order.
ImportsFor(k) ==
    LET pool == SpecifiersFor(k)
    IN  UNION {{[i \in 1..m |-> pool[f[i]]] :
                   f \in {g \in [1..m -> 1..Len(pool)] :
                             \A i \in 1..(m - 1) : g[i] < g[i + 1]}} :
               m \in 0..MaxImports}

\* The catalog of the four components with the dependency lists d, every
\* one of them long enough for the duplication filter.
FourCatalog(d) ==
    [k \in 1..4 |->
        [namedComponent(FourNames[k], d[k]) EXCEPT !.linesOfCode = minLines]]

\* The dependency lists that go with every combination of files: none, the
\* fan a -> b, a -> c, and the chain d -> a -> b -> c.
PlainImports ==
    {[k \in 1..4 |-> <<>>],
     [k \in 1..4 |-> IF k = 1 THEN <<relativeTo(FourNames[2]), relativeTo(FourNames[3])>>
                     ELSE <<>>],
     [k \in 1..4 |-> IF k = 4 THEN <<relativeTo(FourNames[1])>>
                     ELSE <<relativeTo(FourNames[k + 1])>>]}

\* The path of the k-th of the four components.
FourPath(k) == namedComponent(FourNames[k], <<>>).path

ArrowFile == [readable |-> TRUE, content |-> <<"a", "=", ">", "a">>]

\* The ways the first record of a catalog can violate the shape of
\* ComponentInfo: no type, linesOfCode a string of digits, no dependencies.
\* components holds what the engines read of the fields that are there.
ShapeDefects == {"type", "linesOfCode", "dependencies"}

\* c.dependencies.some(...) of calculateCoupling throws a TypeError for a
\* record without dependencies; the engines read no type, and compare a
\* linesOfCode that is a string of digits as the number it denotes.
couplingThrows(defect) == defect = "dependencies"

\* Four components: every combination of dependency lists over files that
\* hold one arrow function each, the plain dependency lists over every
\* combination of files, and the plain dependency lists with a first record
\* of the wrong shape.
InitEndToEnd ==
    /\ pc = "idle"
    /\ cycles = <<>>
    /\ metrics = NoMetrics
    /\ record = NoRecord
    /\ fileCache = <<>> /\ astCache = <<>>
    /\ run = <<>>
    /\ now = 1
    /\ \/ /\ \E da \in ImportsFor(1), db \in ImportsFor(2),
                dc \in ImportsFor(3), dd \in ImportsFor(4) :
                components = FourCatalog(<<da, db, dc, dd>>)
          /\ fs = [p \in {FourPath(k) : k \in 1..4} |-> ArrowFile]
          /\ hist = [defect |-> "none", engines |-> <<>>]
       \/ /\ \E d \in PlainImports : components = FourCatalog(d)
          /\ fs = [p \in {FourPath(k) : k \in 1..4} |-> ArrowFile]
          /\ \E defect \in ShapeDefects : hist = [defect |-> defect, engines |-> <<>>]
       \/ /\ \E d \in PlainImports : components = FourCatalog(d)
          /\ hist = [defect |-> "none", engines |-> <<>>]
          /\ \E fa \in FileStates, fb \in FileStates,
                fc \in FileStates, fd \in FileStates :
                fs = [p \in {FourPath(k) : k \in 1..4} |->
                         IF p = FourPath(1) THEN fa
                         ELSE IF p = FourPath(2) THEN fb
                         ELSE IF p = FourPath(3) THEN fc
                         ELSE fd]

\* A caller invokes analyzeArchitecture(components, repoPath) and every
\* await of the invocation settles.
AnalyzeFresh ==
    /\ pc = "idle"
    /\ IF couplingThrows(hist.defect)
       THEN /\ pc' = "thrown"
            /\ hist' = [hist EXCEPT !.engines = <<"coupling">>]
            /\ UNCHANGED <<metrics, cycles, record, now>>
       ELSE /\ pc' = "returned"
            /\ hist' = [hist EXCEPT !.engines =
                           <<"coupling", "duplication", "complexity", "cycles">>]
            /\ metrics' = freshMetrics(components, fs)
            /\ cycles' = metrics'.circularDependencies
            /\ record' = assembleAnalysis(metrics', now)
            /\ now' = now + 1
    /\ UNCHANGED <<components, fs, fileCache, astCache, run>>

NextEndToEnd == AnalyzeFresh

SpecEndToEnd == InitEndToEnd /\ [][NextEndToEnd]_vars

-----------------------------------------------------------------------------
(* Claims about the whole analysis (checked under SpecEndToEnd)            *)

\* The component i has a relative specifier that names the component k.
DependsRelatively(i, k) ==
    \E d \in 1..Len(components[i].dependencies) :
        /\ components[i].dependencies[d][1] = "."
        /\ stripRelative(components[i].dependencies[d]) = components[k].name

NoRelativeDependency(k) ==
    \A d \in 1..Len(components[k].dependencies) :
        components[k].dependencies[d][1] # "."

\* The case of the end-to-end test: p imports q and r relatively, q
\* imports nothing relatively, and the record shows no duplicate, no cycle
\* and no function that is not simple.
EndToEndCase(p, q, r) ==
    /\ pc = "returned"
    /\ Len(components) = 4
    /\ Cardinality({p, q, r}) = 3
    /\ DependsRelatively(p, q) /\ DependsRelatively(p, r)
    /\ NoRelativeDependency(q)
    /\ record.duplication = <<>>
    /\ record.circularDependencies = <<>>
    /\ \A f \in 1..Len(record.complexity) : record.complexity[f].score = "simple"

HighCoupling == {k \in 1..Len(record.coupling) : record.coupling[k].score = "high"}

\* C21 as stated: in the case of the end-to-end test the metric of q has
\* afferentCoupling >= 1 and efferentCoupling 0, and the healthScore of the
\* record is 100.
C21_EndToEndHealthIs100 ==
    \A p, q, r \in 1..Len(components) :
        EndToEndCase(p, q, r) =>
            /\ record.coupling[q].component = components[q].path
            /\ record.coupling[q].afferentCoupling >= 1
            /\ record.coupling[q].efferentCoupling = 0
            /\ record.healthScore = 100

\* C21, amended: in the case of the end-to-end test the metric of q has
\* afferentCoupling >= 1 and efferentCoupling 0, and the healthScore of the
\* record is 100 less 3 for every component whose coupling is scored high;
\* p is among them when no dependency list holds its name.
C21_EndToEndHealth ==
    \A p, q, r \in 1..Len(components) :
        EndToEndCase(p, q, r) =>
            /\ record.coupling[q].component = components[q].path
            /\ record.coupling[q].afferentCoupling >= 1
            /\ record.coupling[q].efferentCoupling = 0
            /\ record.healthScore = 100 - 3 * Cardinality(HighCoupling)
            /\ (\A i \in 1..Len(components) : ~Names(i, p)) => p \in HighCoupling

\* C21 happens: a imports b and c, nothing holds the name of a, and the
\* record of the run scores 97.
C21_Witness ==
    /\ EndToEndCase(1, 2, 3)
    /\ \A i \in 1..Len(components) : ~Names(i, 1)
    /\ record.coupling[2].afferentCoupling >= 1
    /\ record.coupling[2].efferentCoupling = 0
    /\ HighCoupling = {1}
    /\ record.healthScore = 97

\* The score 100 is reached in the case of the test as well, by a catalog
\* in which a package specifier holds the name of the importer.
C21_WitnessNoHighCoupling ==
    /\ \E p, q, r \in 1..Len(components) : EndToEndCase(p, q, r)
    /\ HighCoupling = {}
    /\ record.healthScore = 100

\* readFile rejects for the file of the k-th component.
UnreadableFile(k) == ~fs[components[k].path].readable

\* parse throws for the text of the k-th component's file.
UnparsableFile(k) ==
    /\ fs[components[k].path].readable
    /\ fs[components[k].path].content # <<>>
    /\ parse(fs[components[k].path].content).thrown

\* The instances of a list that do not name the path p, in their order.
InstancesWithout(list, p) == SelectSeq(list, LAMBDA d : p \notin Range(d.files))

\* The entries of a list that are not of the file p, in their order.
EntriesWithout(list, p) == SelectSeq(list, LAMBDA c : c.file # p)

\* What the engines give for the same catalog when the file of the k-th
\* component holds one arrow function.
WithSoundFile(k) ==
    freshMetrics(components, [fs EXCEPT ![components[k].path] = ArrowFile])

\* The record says of every component but the k-th what it says when the
\* file of the k-th is sound.
OthersAsUsual(k) ==
    LET p == components[k].path
    IN  /\ record.coupling = WithSoundFile(k).coupling
        /\ record.circularDependencies = WithSoundFile(k).circularDependencies
        /\ InstancesWithout(record.duplication, p)
              = InstancesWithout(WithSoundFile(k).duplication, p)
        /\ EntriesWithout(record.complexity, p)
              = EntriesWithout(WithSoundFile(k).complexity, p)

C23_MalformedCatalogRejected ==
    (pc # "idle" /\ hist.defect # "none") =>
        /\ pc = "thrown"
        /\ hist.engines = <<>>
        /\ ~record.returned
-----------------------------------------------------------------------------
(* Specification of the two counts of the complexity analyzer              *)

MaxTokens == 3    \* tokens of a function text given as a run of tokens
MaxLines == 3     \* lines of a function text given line by line

\* The tokens of a function text: the keywords of the patterns, else and
\* switch, the operators and their halves, braces, spaces and a name.
TokenPool ==
    {<<"i", "f">>, <<"e", "l", "s", "e">>, <<"f", "o", "r">>,
     <<"w", "h", "i", "l", "e">>, <<"c", "a", "s", "e">>,
     <<"c", "a", "t", "c", "h">>, <<"s", "w", "i", "t", "c", "h">>,
     <<"&", "&">>, <<"|", "|">>, <<"&">>, <<"|">>, <<"?">>,
     <<" ">>, <<"\n">>, <<"{">>, <<"}">>, <<"x">>}

\* The lines of a function text: braces alone, in pairs and around a
\* keyword, operators, and a name.
LinePool ==
    {<<"{">>, <<"}">>, <<"{", "{">>, <<"}", "}">>, <<"i", "f">>,
     <<"i", "f", "{">>, <<"}", "f", "o", "r", "{">>,
     <<"x", "&", "&", "x", "|", "|", "x">>, <<"x">>}

RECURSIVE concat(_)
concat(parts) ==
    IF parts = <<>> THEN <<>> ELSE Head(parts) \o concat(Tail(parts))

\* Every run of at most MaxTokens tokens and every text of at most
\* MaxLines lines.
InitCounting ==
    /\ pc = "idle"
    /\ components = <<>>
    /\ cycles = <<>>
    /\ metrics = NoMetrics
    /\ record = NoRecord
    /\ fs = <<>> /\ fileCache = <<>> /\ astCache = <<>> /\ hist = <<>> /\ now = 0
    /\ \/ \E m \in 0..MaxTokens : \E t \in [1..m -> TokenPool] :
             run = [code |-> concat(t), cyclomatic |-> 0, cognitive |-> 0]
       \/ \E m \in 1..MaxLines : \E ls \in [1..m -> LinePool] :
             run = [code |-> joinLines(ls), cyclomatic |-> 0, cognitive |-> 0]

\* analyzeComponentComplexity counts the two complexities of the source
\* text of one function.
CountComplexity ==
    /\ pc = "idle"
    /\ pc' = "returned"
    /\ run' = [run EXCEPT
                  !.cyclomatic = calculateCyclomaticComplexity(run.code),
                  !.cognitive = calculateCognitiveComplexity(run.code)]
    /\ UNCHANGED <<components, cycles, metrics, record, fs, fileCache,
                   astCache, hist, now>>

NextCounting == CountComplexity

SpecCounting == InitCounting /\ [][NextCounting]_vars

-----------------------------------------------------------------------------
(* Claims about the two counts (checked under SpecCounting)                *)

\* The word w stands at position i of the text as a whole word.
WordAt(text, i, w) ==
    /\ i + Len(w) - 1 <= Len(text)
    /\ \A k \in 1..Len(w) : text[i + k - 1] = w[k]
    /\ i = 1 \/ text[i - 1] \notin WordChars
    /\ i + Len(w) > Len(text) \/ text[i + Len(w)] \notin WordChars

Words(text, w) == Cardinality({i \in 1..Len(text) : WordAt(text, i, w)})

\* "else", one or more blanks, and "if" as a whole word start at i.
ElseIfAt(text, i) ==
    /\ i = 1 \/ text[i - 1] \notin WordChars
    /\ i + 3 <= Len(text)
    /\ SubSeq(text, i, i + 3) = <<"e", "l", "s", "e">>
    /\ \E j \in (i + 5)..Len(text) :
          /\ \A k \in (i + 4)..(j - 1) : text[k] \in SpaceChars
          /\ j + 1 <= Len(text) /\ text[j] = "i" /\ text[j + 1] = "f"
          /\ j + 2 > Len(text) \/ text[j + 2] \notin WordChars

ElseIfs(text) == Cardinality({i \in 1..Len(text) : ElseIfAt(text, i)})

\* The number of characters ch that stand directly before position i.
RunBefore(text, i, ch) ==
    LET others == {j \in 1..(i - 1) : text[j] # ch}
    IN  IF others = {} THEN i - 1
        ELSE i - 1 - (CHOOSE j \in others : \A k \in others : k <= j)

\* The matches of the doubled character ch, taken from left to right
\* without overlap: the pairs that start an even number of ch into a run.
Pairs(text, ch) ==
    Cardinality({i \in 1..(Len(text) - 1) :
        text[i] = ch /\ text[i + 1] = ch /\ RunBefore(text, i, ch) % 2 = 0})

Chars(text, ch) == Cardinality({i \in 1..Len(text) : text[i] = ch})

\* The matches of every decision-point pattern but "if" and "&&".
OtherDecisionPoints(text) ==
    ElseIfs(text) + Words(text, <<"f", "o", "r">>)
        + Words(text, <<"w", "h", "i", "l", "e">>)
        + Words(text, <<"c", "a", "s", "e">>)
        + Words(text, <<"c", "a", "t", "c", "h">>)
        + Pairs(text, "|") + Chars(text, "?")

\* C24: the cyclomatic complexity of a function text is 1 plus the number
\* of matches of the patterns if, else-if, for, while, case, catch, &&, ||
\* and ?, every match counting 1; it is at least 1, and it is 3 for a text
\* with one if, one && and no other decision point.
C24_CyclomaticIsOnePlusMatches ==
    pc = "returned" =>
        /\ run.cyclomatic = 1 + Words(run.code, <<"i", "f">>)
                              + Pairs(run.code, "&")
                              + OtherDecisionPoints(run.code)
        /\ run.cyclomatic >= 1
        /\ (/\ Words(run.code, <<"i", "f">>) = 1
            /\ Pairs(run.code, "&") = 1
            /\ OtherDecisionPoints(run.code) = 0) => run.cyclomatic = 3

\* C24 happens: a text with one if, one && and nothing else has been
\* counted, and the count is 3.
C24_Witness ==
    /\ pc = "returned"
    /\ Words(run.code, <<"i", "f">>) = 1
    /\ Pairs(run.code, "&") = 1
    /\ OtherDecisionPoints(run.code) = 0
    /\ run.cyclomatic = 3

\* An else if has been counted: it matches if and else-if and counts 2.
C24_WitnessElseIf ==
    /\ pc = "returned"
    /\ ElseIfs(run.code) = 1
    /\ Words(run.code, <<"i", "f">>) = 1
    /\ run.cyclomatic = 3

\* The nesting depth after the braces of a line, taken one by one from
\* position i on: up for "{", down for "}", never below 0.
RECURSIVE DepthAfter(_, _, _)
DepthAfter(line, i, depth) ==
    IF i > Len(line) THEN depth
    ELSE IF line[i] = "{" THEN DepthAfter(line, i + 1, depth + 1)
    ELSE IF line[i] = "}" THEN DepthAfter(line, i + 1, Max(0, depth - 1))
    ELSE DepthAfter(line, i + 1, depth)

ControlLine(line) ==
    \E w \in {<<"i", "f">>, <<"f", "o", "r">>, <<"w", "h", "i", "l", "e">>,
              <<"s", "w", "i", "t", "c", "h">>, <<"c", "a", "t", "c", "h">>} :
        Words(line, w) > 0

\* The cognitive complexity with a nesting depth that counts every brace:
\* the sum over the lines from k on.
RECURSIVE CognitiveByBrace(_, _, _)
CognitiveByBrace(lines, k, depth) ==
    IF k > Len(lines) THEN 0
    ELSE LET after == DepthAfter(lines[k], 1, depth)
         IN  (IF ControlLine(lines[k]) THEN 1 + after ELSE 0)
                + Pairs(lines[k], "&") + Pairs(lines[k], "|")
                + CognitiveByBrace(lines, k + 1, after)

\* C25: the cognitive complexity of a function text is the sum, over its
\* lines, of 1 + the nesting depth for a line with if, for, while, switch
\* or catch and of 1 for every && and ||, where the depth goes up by 1 for
\* each opening brace and down by 1 for each closing brace, never below 0;
\* it is at least 0.
C25_CognitiveCountsEveryBrace ==
    pc = "returned" =>
        /\ run.cognitive = CognitiveByBrace(splitLines(run.code), 1, 0)
        /\ run.cognitive >= 0

\* No line of the text holds two braces.
OneBracePerLine(text) ==
    \A k \in 1..Len(splitLines(text)) :
        Chars(splitLines(text)[k], "{") + Chars(splitLines(text)[k], "}") <= 1

\* The same holds of the texts that have at most one brace on a line.
C25_HoldsOnOneBracePerLine ==
    (pc = "returned" /\ OneBracePerLine(run.code)) =>
        /\ run.cognitive = CognitiveByBrace(splitLines(run.code), 1, 0)
        /\ run.cognitive >= 0

\* The pairs of candidates of the catalog; every component of a catalog of
\* this specification is a candidate.
CandidatePairs == (Len(components) * (Len(components) - 1)) \div 2

C26_BoundItselfNotExamined ==
    pc = "returned" =>
        /\ Examined < maxComparisons
        /\ CandidatePairs # maxComparisons

\* The function nodes of the tree that parse gives for a text.
FunctionNodes(content) ==
    {i \in 1..Len(parse(content).ast) : parse(content).ast[i].type \in FunctionTypes}

\* The file of the k-th component can be read and parsed.
SoundFile(k) ==
    /\ fs[components[k].path].readable
    /\ fs[components[k].path].content # <<>>
    /\ ~parse(fs[components[k].path].content).thrown

\* C29: the walk over the tree of a file ends and yields one entry for
\* each FunctionDeclaration, FunctionExpression and ArrowFunctionExpression
\* node of the tree: the record holds as many complexity entries of a file
\* that can be read and parsed as its tree has function nodes.
C29_OneEntryPerFunctionNode ==
    pc = "returned" =>
        \A k \in 1..Len(components) :
            SoundFile(k) =>
                Cardinality({f \in 1..Len(record.complexity) :
                                record.complexity[f].file = components[k].path})
                    = Cardinality(FunctionNodes(fs[components[k].path].content))
-----------------------------------------------------------------------------
(* Specification of the batches of calculateComplexity: every analysis     *)
(* waits for its file, and the analyses in flight complete one by one.     *)

MaxBatches == 2     \* full batches of the largest catalogs

\* The catalogs: none, one file, and around every number of full batches.
BatchCatalogSizes ==
    {0, 1} \cup {n \in {b * batchSize + e : b \in 1..MaxBatches, e \in {-1, 0, 1}} : n > 0}

\* The lowest and the highest of a set of indices.
Lowest(S) == CHOOSE k \in S : \A j \in S : k <= j
Highest(S) == CHOOSE k \in S : \A j \in S : k >= j

InitBatches ==
    /\ pc = "idle"
    /\ cycles = <<>>
    /\ metrics = NoMetrics
    /\ record = NoRecord
    /\ fileCache = <<>> /\ astCache = <<>> /\ now = 0
    /\ run = IdleRun
    /\ hist = [started |-> {}, completed |-> {}]
    /\ \E n \in BatchCatalogSizes, functions \in 0..MaxFunctions :
          /\ components = LongCatalog(n)
          /\ fs = [p \in {numberedPath(k) : k \in 1..n} |->
                      [late |-> TRUE, functions |-> functions]]

\* The analyses that the loop has started by the time it waits: those of
\* the batch it waits for are added to the ones started before.
withStarted(c) == [c EXCEPT !.hist.started = @ \cup c.run.cxPending]

\* A caller invokes calculateComplexity(components, repoPath).
StartComplexity ==
    /\ pc = "idle"
    /\ takeComplexity(withStarted(batchLoop(
           [pc |-> pc, hist |-> hist,
            run |-> [run EXCEPT !.cxMetrics = [k \in 1..Len(components) |-> <<>>]]],
           0)))

\* The analysis of the k-th component completes; the analyses in flight
\* complete from either end of the batch.
AnalysisCompletes(k) ==
    /\ pc = "complexity"
    /\ k \in run.cxPending
    /\ k \in {Lowest(run.cxPending), Highest(run.cxPending)}
    /\ takeComplexity(withStarted(awaitBatch(
           [pc |-> pc,
            hist |-> [hist EXCEPT !.completed = @ \cup {k}],
            run |-> [run EXCEPT
                        !.cxPending = @ \ {k},
                        !.cxMetrics[k] =
                            analysisResult(components[k],
                                           fs[components[k].path].functions)]])))

NextBatches ==
    \/ StartComplexity
    \/ \E k \in 1..Len(components) : AnalysisCompletes(k)

SpecBatches == InitBatches /\ [][NextBatches]_vars

-----------------------------------------------------------------------------
(* Claims about the batches (checked under SpecBatches)                    *)

InFlight == hist.started \ hist.completed

\* The number of the batch of the k-th component, from 0.
BatchOf(k) == (k - 1) \div batchSize

\* C30: at most 20 analyses are in flight at any time, and no analysis of
\* a batch has been started while one of an earlier batch has not
\* completed.
C30_OneBatchInFlight ==
    /\ Cardinality(InFlight) <= 20
    /\ \A k \in hist.started :
          \A j \in 1..Len(components) :
              BatchOf(j) < BatchOf(k) => j \in hist.completed
    /\ pc = "returned" => hist.completed = 1..Len(components)

\* C30 happens: the second batch is in flight, 20 analyses at once, and
\* every analysis of the first batch has completed.
C30_Witness ==
    /\ pc = "complexity"
    /\ Len(components) >= 2 * batchSize
    /\ run.batchStart = batchSize
    /\ Cardinality(InFlight) = 20
    /\ \A k \in InFlight : BatchOf(k) = 1
    /\ hist.completed = 1..batchSize
=============================================================================
